---- MODULE Spec2Model ----
(***************************************************************************)
(* Model of the Phara chatbot core: the relevance guardrails               *)
(* (guardrails.py), the dataset context (file_processor.py), the process   *)
(* wide configuration (config.py), the four provider adapters and their    *)
(* factory (ai_providers.py), the orchestrator (brain.py) and the request   *)
(* handlers of the web server that share it (chatbot_server.py).           *)
(*                                                                         *)
(* Text.  A Python str is a sequence of fragments.  Text typed by a user,  *)
(* keywords, filenames and prefixes the code inspects are spelled one      *)
(* character per fragment, so that lower(), `in`, the regular expressions  *)
(* and str.replace are computed on characters.  A fixed message of the     *)
(* source that no code ever inspects is kept as one fragment (split only   *)
(* where a property looks for a part of it).                               *)
(***************************************************************************)
EXTENDS Integers, Sequences, FiniteSets, TLC

VARIABLES
    ACTIVE_MODEL,          \* Config.ACTIVE_MODEL
    API_KEYS,              \* Config.API_KEYS
    MODEL_CONFIGS,         \* Config.MODEL_CONFIGS (the api_key of each ModelConfig)
    brain,                 \* the Brain object: NoBrain, or [config |-> provider]
    ai_provider,           \* the adapter object in use: NoAdapter, or an adapter record
    loaded_files,          \* FileProcessor.loaded_files, in insertion order
    current_file_context,  \* FileProcessor.current_file_context
    last,                  \* the last call made: operation, argument, result
    requests               \* the web server's request handlers: where each one is

vars == <<ACTIVE_MODEL, API_KEYS, MODEL_CONFIGS, brain, ai_provider,
          loaded_files, current_file_context, last, requests>>

----------------------------------------------------------------------------
(* Python values *)

None == [k |-> "none", v |-> <<>>]
Str(t) == [k |-> "str", v |-> t]
IsStr(x) == x.k = "str"
\* bool(x) of a str or None
Truthy(x) == x.k = "str" /\ x.v # <<>>
\* the text an f-string puts for {x}
Format(x) == IF x.k = "none" THEN <<"N", "o", "n", "e">> ELSE x.v

UpperCase ==
    [A |-> "a", B |-> "b", C |-> "c", D |-> "d", E |-> "e", F |-> "f", G |-> "g",
     H |-> "h", I |-> "i", J |-> "j", K |-> "k", L |-> "l", M |-> "m", N |-> "n",
     O |-> "o", P |-> "p", Q |-> "q", R |-> "r", S |-> "s", T |-> "t", U |-> "u",
     V |-> "v", W |-> "w", X |-> "x", Y |-> "y", Z |-> "z"]

\* str.lower()
Lower(s) == [i \in 1..Len(s) |-> IF s[i] \in DOMAIN UpperCase THEN UpperCase[s[i]] ELSE s[i]]

\* `k in s` for two str
Contains(s, k) == \E i \in 1..(Len(s) - Len(k) + 1) : SubSeq(s, i, i + Len(k) - 1) = k

\* s.endswith(k)
EndsWith(s, k) == Len(s) >= Len(k) /\ SubSeq(s, Len(s) - Len(k) + 1, Len(s)) = k

RECURSIVE Join(_, _)
\* sep.join(parts)
Join(sep, parts) ==
    IF parts = <<>> THEN <<>>
    ELSE IF Len(parts) = 1 THEN parts[1]
    ELSE parts[1] \o sep \o Join(sep, Tail(parts))

Digits == <<"0", "1", "2", "3", "4", "5", "6", "7", "8", "9">>

RECURSIVE IntStr(_)
\* str(n) of an int n >= 0
IntStr(n) == IF n < 10 THEN <<Digits[n + 1]>> ELSE IntStr(n \div 10) \o <<Digits[(n % 10) + 1]>>

RECURSIVE Replace(_, _, _)
\* s.replace(old, new), old not empty: every occurrence, left to right
Replace(s, old, new) ==
    IF Len(s) < Len(old) THEN s
    ELSE IF SubSeq(s, 1, Len(old)) = old
    THEN new \o Replace(SubSeq(s, Len(old) + 1, Len(s)), old, new)
    ELSE <<s[1]>> \o Replace(Tail(s), old, new)

\* the characters the regular expression class \w matches
WordChars ==
    {"a", "b", "c", "d", "e", "f", "g", "h", "i", "j", "k", "l", "m", "n", "o", "p", "q",
     "r", "s", "t", "u", "v", "w", "x", "y", "z", "0", "1", "2", "3", "4", "5", "6", "7",
     "8", "9", "_"} \cup DOMAIN UpperCase

\* \b at position i of s: between s[i-1] and s[i], exactly one is a word character
WordBoundary(s, i) ==
    LET before == i > 1 /\ s[i - 1] \in WordChars
        after  == i <= Len(s) /\ s[i] \in WordChars
    IN  before # after

\* (?!.*k) at position i of s: k does not follow on the same line
NotAhead(s, i, k) ==
    ~ \E j \in i..(Len(s) - Len(k) + 1) :
          /\ SubSeq(s, j, j + Len(k) - 1) = k
          /\ \A m \in i..(j - 1) : s[m] # "\n"

\* re.search(pattern, s) for a pattern \b(w1|w2|...)\b with an optional (?!.*k)
Search(p, s) ==
    \E w \in p.words : \E i \in 1..(Len(s) - Len(w) + 1) :
        /\ SubSeq(s, i, i + Len(w) - 1) = w
        /\ WordBoundary(s, i)
        /\ WordBoundary(s, i + Len(w))
        /\ (p.notAhead # <<>> => NotAhead(s, i + Len(w), p.notAhead))

----------------------------------------------------------------------------
(* file_processor.py *)

\* the files of the data folder: whether pandas reads them, and what it reads
DataFolder ==
    { [name |-> <<"s", ".", "c", "s", "v">>, reads |-> TRUE,
       df |-> [shape |-> <<3, 2>>, columns |-> << <<"date">>, <<"sales">> >>]],
      [name |-> <<"t", ".", "c", "s", "v">>, reads |-> TRUE,
       df |-> [shape |-> <<12, 1>>, columns |-> << <<"region">> >>]],
      [name |-> <<"R", ".", "X", "L", "S">>, reads |-> FALSE,
       df |-> [shape |-> <<0, 0>>, columns |-> <<>>]],
      [name |-> <<"n", ".", "t", "x", "t">>, reads |-> TRUE,
       df |-> [shape |-> <<0, 0>>, columns |-> <<>>]] }

\* the filenames a caller passes to load_file; the last one is not in the folder
Filenames == {f.name : f \in DataFolder} \cup {<<"n", "o", ".", "c", "s", "v">>}

OnDisk(filename) == CHOOSE f \in DataFolder : f.name = filename

\* FileProcessor.list_loaded_files
list_loaded_files(files) == [i \in 1..Len(files) |-> files[i].name]

\* FileProcessor.get_current_context
get_current_context(ctx) == ctx

\* loaded_files[filename] = df: a new key goes last, an old key keeps its place
StoreFile(files, filename, df) ==
    IF \E i \in 1..Len(files) : files[i].name = filename
    THEN [i \in 1..Len(files) |->
             IF files[i].name = filename THEN [name |-> filename, df |-> df] ELSE files[i]]
    ELSE Append(files, [name |-> filename, df |-> df])

\* FileProcessor._generate_file_summary, its first two lines
generate_file_summary(df, filename) ==
    <<"File Loaded: ">> \o filename \o <<"\n", "Dimensions: ">> \o IntStr(df.shape[1])
        \o <<" rows x ">> \o IntStr(df.shape[2]) \o <<" columns">>

\* load_file that sets the context before it reads the file
load_file_context_first(files, ctx, filename) ==
    IF ~ \E f \in DataFolder : f.name = filename
    THEN [success |-> FALSE,
          message |-> <<"File '">> \o filename \o <<"' not found in data folder">>,
          files |-> files, ctx |-> ctx]
    ELSE IF EndsWith(Lower(filename), <<".", "c", "s", "v">>)
            \/ EndsWith(Lower(filename), <<".", "x", "l", "s", "x">>)
            \/ EndsWith(Lower(filename), <<".", "x", "l", "s">>)
    THEN IF OnDisk(filename).reads
         THEN [success |-> TRUE,
               message |-> generate_file_summary(OnDisk(filename).df, filename),
               files |-> StoreFile(files, filename, OnDisk(filename).df),
               ctx |-> Str(filename)]
         ELSE [success |-> FALSE,
               message |-> <<"Error loading file '">> \o filename \o <<"': ", "ParserError">>,
               files |-> files, ctx |-> Str(filename)]
    ELSE [success |-> FALSE,
          message |-> <<"Unsupported file format: ">> \o filename,
          files |-> files, ctx |-> ctx]

\* FileProcessor.load_file: the result and the new loaded_files and context
load_file(files, ctx, filename) ==
    IF ~ \E f \in DataFolder : f.name = filename
    THEN [success |-> FALSE,
          message |-> <<"File '">> \o filename \o <<"' not found in data folder">>,
          files |-> files, ctx |-> ctx]
    ELSE IF EndsWith(Lower(filename), <<".", "c", "s", "v">>)
            \/ EndsWith(Lower(filename), <<".", "x", "l", "s", "x">>)
            \/ EndsWith(Lower(filename), <<".", "x", "l", "s">>)
    THEN IF OnDisk(filename).reads
         THEN [success |-> TRUE,
               message |-> generate_file_summary(OnDisk(filename).df, filename),
               files |-> StoreFile(files, filename, OnDisk(filename).df),
               ctx |-> Str(filename)]
         ELSE [success |-> FALSE,
               message |-> <<"Error loading file '">> \o filename \o <<"': ", "ParserError">>,
               files |-> files, ctx |-> ctx]
    ELSE [success |-> FALSE,
          message |-> <<"Unsupported file format: ">> \o filename,
          files |-> files, ctx |-> ctx]

----------------------------------------------------------------------------
(* guardrails.py *)

data_keywords ==
    { <<"d", "a", "t", "a">>, <<"c", "o", "l", "u", "m", "n">>, <<"r", "o", "w">>, <<"t", "a", "b", "l", "e">>, <<"c", "s", "v">>, <<"e", "x", "c", "e", "l">>, <<"f", "i", "l", "e">>,
      <<"a", "n", "a", "l", "y", "z", "e">>, <<"a", "n", "a", "l", "y", "s", "i", "s">>, <<"s", "t", "a", "t", "i", "s", "t", "i", "c", "s">>, <<"s", "t", "a", "t", "s">>, <<"s", "u", "m", "m", "a", "r", "y">>,
      <<"c", "o", "u", "n", "t">>, <<"s", "u", "m">>, <<"a", "v", "e", "r", "a", "g", "e">>, <<"m", "e", "a", "n">>, <<"m", "e", "d", "i", "a", "n">>, <<"m", "a", "x">>, <<"m", "i", "n">>,
      <<"t", "r", "e", "n", "d">>, <<"p", "a", "t", "t", "e", "r", "n">>, <<"c", "o", "r", "r", "e", "l", "a", "t", "i", "o", "n">>, <<"d", "i", "s", "t", "r", "i", "b", "u", "t", "i", "o", "n">>,
      <<"f", "i", "l", "t", "e", "r">>, <<"s", "o", "r", "t">>, <<"g", "r", "o", "u", "p">>, <<"a", "g", "g", "r", "e", "g", "a", "t", "e">>, <<"p", "i", "v", "o", "t">>,
      <<"c", "h", "a", "r", "t">>, <<"g", "r", "a", "p", "h">>, <<"p", "l", "o", "t">>, <<"v", "i", "s", "u", "a", "l", "i", "z", "a", "t", "i", "o", "n">>,
      <<"m", "i", "s", "s", "i", "n", "g">>, <<"n", "u", "l", "l">>, <<"d", "u", "p", "l", "i", "c", "a", "t", "e">>, <<"u", "n", "i", "q", "u", "e">>,
      <<"s", "a", "l", "e", "s">>, <<"r", "e", "v", "e", "n", "u", "e">>, <<"p", "r", "o", "d", "u", "c", "t">>, <<"c", "u", "s", "t", "o", "m", "e", "r">>, <<"r", "e", "g", "i", "o", "n">> }

off_topic_patterns ==
    << [words |-> {<<"w", "e", "a", "t", "h", "e", "r">>, <<"n", "e", "w", "s">>, <<"p", "o", "l", "i", "t", "i", "c", "s">>, <<"s", "p", "o", "r", "t", "s">>, <<"e", "n", "t", "e", "r", "t", "a", "i", "n", "m", "e", "n", "t">>,
                   <<"m", "o", "v", "i", "e", "s">>, <<"m", "u", "s", "i", "c">>},
        notAhead |-> <<>>],
       [words |-> {<<"r", "e", "c", "i", "p", "e">>, <<"c", "o", "o", "k", "i", "n", "g">>, <<"f", "o", "o", "d">>, <<"r", "e", "s", "t", "a", "u", "r", "a", "n", "t">>},
        notAhead |-> <<>>],
       [words |-> {<<"t", "r", "a", "v", "e", "l">>, <<"v", "a", "c", "a", "t", "i", "o", "n">>, <<"h", "o", "t", "e", "l">>, <<"f", "l", "i", "g", "h", "t">>},
        notAhead |-> <<>>],
       [words |-> {<<"h", "e", "a", "l", "t", "h">>, <<"m", "e", "d", "i", "c", "a", "l">>, <<"d", "o", "c", "t", "o", "r">>, <<"m", "e", "d", "i", "c", "i", "n", "e">>},
        notAhead |-> <<>>],
       [words |-> {<<"p", "r", "o", "g", "r", "a", "m", "m", "i", "n", "g">>, <<"c", "o", "d", "e">>, <<"s", "o", "f", "t", "w", "a", "r", "e">>, <<"d", "e", "v", "e", "l", "o", "p", "m", "e", "n", "t">>},
        notAhead |-> <<"d", "a", "t", "a">>],
       [words |-> {<<"p", "e", "r", "s", "o", "n", "a", "l">>, <<"f", "a", "m", "i", "l", "y">>, <<"r", "e", "l", "a", "t", "i", "o", "n", "s", "h", "i", "p">>, <<"d", "a", "t", "i", "n", "g">>},
        notAhead |-> <<>>],
       [words |-> {<<"j", "o", "k", "e">>, <<"f", "u", "n", "n", "y">>, <<"h", "u", "m", "o", "r">>, <<"m", "e", "m", "e">>},
        notAhead |-> <<>>] >>

redirect_responses ==
    { <<"I'm here to help you analyze and understand your data files. Let's focus on the data you've loaded.">>,
      <<"I specialize in data analysis. Would you like to explore the information in your files instead?">>,
      <<"Let's keep our conversation focused on your data. What would you like to know about the loaded files?">>,
      <<"I'm designed to help with data analysis and file exploration. How can I assist you with your data?">> }

no_data_responses ==
    { <<"I don't see any data files loaded yet. Would you like to load a file from the data folder?">>,
      <<"To get started, please load a data file using the 'load' command. I can then help you analyze it.">>,
      <<"No data files are currently loaded. Use 'files' to see available files or 'load <filename>' to load one.">> }

\* the keywords of line 66
bootstrap_keywords == {<<"l", "o", "a", "d">>, <<"f", "i", "l", "e">>, <<"d", "a", "t", "a">>}

\* some pattern of off_topic_patterns is found in the lower-cased text
MatchesOffTopic(user_input_lower) ==
    \E n \in 1..Len(off_topic_patterns) : Search(off_topic_patterns[n], user_input_lower)

\* check_query_relevance with the keyword rule tried before the off-topic patterns
check_query_relevance_keywords_first(user_input, files) ==
    LET user_input_lower == Lower(user_input)
        files_loaded == files # <<>>
    IN  IF ~ files_loaded /\ ~ \E keyword \in bootstrap_keywords : Contains(user_input_lower, keyword)
        THEN {[is_relevant |-> FALSE, redirect_message |-> Str(m)] : m \in no_data_responses}
        ELSE IF (\E keyword \in data_keywords : Contains(user_input_lower, keyword)) \/ files_loaded
        THEN {[is_relevant |-> TRUE, redirect_message |-> None]}
        ELSE {[is_relevant |-> FALSE, redirect_message |-> Str(m)] : m \in redirect_responses}

\* check_query_relevance with the off-topic patterns tried before the no-data rule
check_query_relevance_patterns_first(user_input, files) ==
    LET user_input_lower == Lower(user_input)
        files_loaded == files # <<>>
    IN  IF MatchesOffTopic(user_input_lower)
        THEN {[is_relevant |-> FALSE, redirect_message |-> Str(m)] : m \in redirect_responses}
        ELSE IF ~ files_loaded /\ ~ \E keyword \in bootstrap_keywords : Contains(user_input_lower, keyword)
        THEN {[is_relevant |-> FALSE, redirect_message |-> Str(m)] : m \in no_data_responses}
        ELSE IF (\E keyword \in data_keywords : Contains(user_input_lower, keyword)) \/ files_loaded
        THEN {[is_relevant |-> TRUE, redirect_message |-> None]}
        ELSE {[is_relevant |-> FALSE, redirect_message |-> Str(m)] : m \in redirect_responses}

\* check_query_relevance without its last rule: what no rule rejects is relevant
check_query_relevance_no_last_rule(user_input, files) ==
    LET user_input_lower == Lower(user_input)
        files_loaded == files # <<>>
    IN  IF ~ files_loaded /\ ~ \E keyword \in bootstrap_keywords : Contains(user_input_lower, keyword)
        THEN {[is_relevant |-> FALSE, redirect_message |-> Str(m)] : m \in no_data_responses}
        ELSE IF MatchesOffTopic(user_input_lower)
        THEN {[is_relevant |-> FALSE, redirect_message |-> Str(m)] : m \in redirect_responses}
        ELSE {[is_relevant |-> TRUE, redirect_message |-> None]}

Decision(is_relevant, redirect_message) ==
    [is_relevant |-> is_relevant, redirect_message |-> redirect_message]

\* check_query_relevance whose last rule returns no message
check_query_relevance_no_last_message(user_input, files) ==
    LET user_input_lower == Lower(user_input)
        files_loaded == list_loaded_files(files) # <<>>
    IN  IF ~ files_loaded /\ ~ \E keyword \in bootstrap_keywords : Contains(user_input_lower, keyword)
        THEN {Decision(FALSE, Str(m)) : m \in no_data_responses}
        ELSE IF MatchesOffTopic(user_input_lower)
        THEN {Decision(FALSE, Str(m)) : m \in redirect_responses}
        ELSE IF (\E keyword \in data_keywords : Contains(user_input_lower, keyword)) \/ files_loaded
        THEN {Decision(TRUE, None)}
        ELSE {Decision(FALSE, None)}

\* check_query_relevance whose third rule looks at the keywords only, not at the files
check_query_relevance_ignoring_loaded(user_input, files) ==
    LET user_input_lower == Lower(user_input)
        files_loaded == list_loaded_files(files) # <<>>
    IN  IF ~ files_loaded /\ ~ \E keyword \in bootstrap_keywords : Contains(user_input_lower, keyword)
        THEN {Decision(FALSE, Str(m)) : m \in no_data_responses}
        ELSE IF MatchesOffTopic(user_input_lower)
        THEN {Decision(FALSE, Str(m)) : m \in redirect_responses}
        ELSE IF \E keyword \in data_keywords : Contains(user_input_lower, keyword)
        THEN {Decision(TRUE, None)}
        ELSE {Decision(FALSE, Str(m)) : m \in redirect_responses}

\* DataGuardrails.check_query_relevance of a str: the decisions random.choice can lead to
check_query_relevance(user_input, files) ==
    LET user_input_lower == Lower(user_input)
        files_loaded == list_loaded_files(files) # <<>>
    IN  IF ~ files_loaded /\ ~ \E keyword \in bootstrap_keywords : Contains(user_input_lower, keyword)
        THEN {Decision(FALSE, Str(m)) : m \in no_data_responses}
        ELSE IF MatchesOffTopic(user_input_lower)
        THEN {Decision(FALSE, Str(m)) : m \in redirect_responses}
        ELSE IF (\E keyword \in data_keywords : Contains(user_input_lower, keyword)) \/ files_loaded
        THEN {Decision(TRUE, None)}
        ELSE {Decision(FALSE, Str(m)) : m \in redirect_responses}

\* FileProcessor.get_file_info: the columns and shape of a loaded file, or nothing
HasFileInfo(files, filename) == \E i \in 1..Len(files) : files[i].name = filename
get_file_info(files, filename) == (CHOOSE f \in {files[i] : i \in 1..Len(files)} : f.name = filename).df

\* the parts with the file list written whether or not a file is loaded
PromptPartsAlwaysListing(user_input, files, ctx) ==
    << <<"You are a data analysis assistant. Your role is to help users understand and analyze their data files.">>,
       <<"\nCurrently loaded files: ">> \o Join(<<", ">>, list_loaded_files(files)) >>
    \o (IF Truthy(get_current_context(ctx)) /\ HasFileInfo(files, ctx.v)
        THEN LET file_info == get_file_info(files, ctx.v)
             IN  << <<"Active file: ">> \o ctx.v,
                    <<"Columns: ">> \o Join(<<", ">>, file_info.columns),
                    <<"Shape: ">> \o IntStr(file_info.shape[1]) \o <<" rows × ">>
                        \o IntStr(file_info.shape[2]) \o <<" columns">> >>
        ELSE <<>>)
    \o << <<"\nGuidelines:">>,
          <<"- Focus only on data analysis, statistics, and insights from the loaded files">>,
          <<"- Provide specific, actionable insights about the data">>,
          <<"- If asked about non-data topics, politely redirect to data analysis">>,
          <<"- Use the actual column names and data when providing examples">>,
          <<"\nUser question: ">> \o user_input >>

\* DataGuardrails.enhance_prompt_with_context: the parts, then their join
PromptParts(user_input, files, ctx) ==
    << <<"You are a data analysis assistant. Your role is to help users understand and analyze their data files.">> >>
    \o (IF list_loaded_files(files) # <<>>
        THEN << <<"\nCurrently loaded files: ">> \o Join(<<", ">>, list_loaded_files(files)) >>
             \o (IF Truthy(get_current_context(ctx)) /\ HasFileInfo(files, ctx.v)
                 THEN LET file_info == get_file_info(files, ctx.v)
                      IN  << <<"Active file: ">> \o ctx.v,
                             <<"Columns: ">> \o Join(<<", ">>, file_info.columns),
                             <<"Shape: ">> \o IntStr(file_info.shape[1]) \o <<" rows × ">>
                                 \o IntStr(file_info.shape[2]) \o <<" columns">> >>
                 ELSE <<>>)
        ELSE <<>>)
    \o << <<"\nGuidelines:">>,
          <<"- Focus only on data analysis, statistics, and insights from the loaded files">>,
          <<"- Provide specific, actionable insights about the data">>,
          <<"- If asked about non-data topics, politely redirect to data analysis">>,
          <<"- Use the actual column names and data when providing examples">>,
          <<"\nUser question: ">> \o user_input >>

\* enhance_prompt_with_context given the lower-cased text the classifier works on
enhance_prompt_lower_cased(user_input, files, ctx) ==
    Join(<<"\n">>, PromptParts(Lower(user_input), files, ctx))

enhance_prompt_with_context(user_input, files, ctx) ==
    Join(<<"\n">>, PromptParts(user_input, files, ctx))

----------------------------------------------------------------------------
(* config.py *)

GEMINI == "gemini"
OPENAI == "openai"
ANTHROPIC == "anthropic"
OLLAMA == "ollama"

\* the members of the enum AIProvider
AIProvider == {GEMINI, OPENAI, ANTHROPIC, OLLAMA}

\* a member of AIProvider as a Python value; its .value is v
Member(p) == [k |-> "enum", v |-> p]

\* the class attribute API_KEYS as the module defines it
InitialApiKeys ==
    [p \in AIProvider |->
        CASE p = GEMINI -> Str(<<"y", "o", "u", "r", "-", "g", "e", "m", "i", "n", "i", "-", "a", "p", "i", "-", "k", "e", "y", "-", "h", "e", "r", "e">>)
          [] p = OPENAI -> Str(<<"y", "o", "u", "r", "-", "o", "p", "e", "n", "a", "i", "-", "a", "p", "i", "-", "k", "e", "y", "-", "h", "e", "r", "e">>)
          [] p = ANTHROPIC -> Str(<<"y", "o", "u", "r", "-", "a", "n", "t", "h", "r", "o", "p", "i", "c", "-", "a", "p", "i", "-", "k", "e", "y", "-", "h", "e", "r", "e">>)
          [] p = OLLAMA -> None]

model_name ==
    [p \in AIProvider |->
        CASE p = GEMINI -> <<"gemini-pro">>
          [] p = OPENAI -> <<"gpt-3.5-turbo">>
          [] p = ANTHROPIC -> <<"claude-3-sonnet-20240229">>
          [] p = OLLAMA -> <<"llama2">>]

\* the class attribute MODEL_CONFIGS as the module defines it
InitialModelConfigs ==
    [p \in AIProvider |->
        [provider |-> p, model_name |-> model_name[p], api_key |-> InitialApiKeys[p]]]

\* Config.get_active_config: the ModelConfig is named by its provider
get_active_config(active) == active

\* Config.switch_model: the exception raised or NoExc, and the new ACTIVE_MODEL
NoExc == [type |-> "none", text |-> <<>>]
Exc(type, text) == [type |-> type, text |-> text]

\* Config.switch_model without its test of the provider
ConfigSwitchModelUnchecked(active, provider) ==
    [exc |-> NoExc,
     active |-> IF provider.k = "enum" /\ provider.v \in AIProvider THEN provider.v
                ELSE "unknown"]

ConfigSwitchModel(active, provider) ==
    IF ~ (provider.k = "enum" /\ provider.v \in AIProvider)
    THEN [exc |-> Exc("ValueError", <<"Unsupported AI provider: ">> \o Format(provider)),
          active |-> active]
    ELSE [exc |-> NoExc, active |-> provider.v]

\* Config.update_api_key: the new API_KEYS and MODEL_CONFIGS; the assignment to API_KEYS
\* adds an entry for a provider it does not have, the lookup in MODEL_CONFIGS then raises
update_api_key(keys, configs, provider, api_key) ==
    LET new_keys == [p \in DOMAIN keys \cup {provider} |->
                        IF p = provider THEN api_key ELSE keys[p]]
    IN  IF provider \notin DOMAIN configs
        THEN [exc |-> Exc("KeyError", <<provider>>), keys |-> new_keys, configs |-> configs]
        ELSE [exc |-> NoExc, keys |-> new_keys,
              configs |-> [configs EXCEPT ![provider].api_key = api_key]]

----------------------------------------------------------------------------
(* ai_providers.py *)

NoAdapter == [cls |-> "none", client |-> FALSE, conversation_history |-> <<>>]

\* BaseAIProvider.__init__ and the subclass __init__: no client or model yet, no history
NewAdapter(cls) == [cls |-> cls, client |-> FALSE, conversation_history |-> <<>>]

\* what initialize() meets: is the provider's package importable, does Ollama answer 200
InitEnvs == [installed : BOOLEAN, reachable : BOOLEAN]

ProviderTitle ==
    [p \in AIProvider |->
        CASE p = GEMINI -> <<"Gemini">>
          [] p = OPENAI -> <<"OpenAI">>
          [] p = ANTHROPIC -> <<"Anthropic">>
          [] p = OLLAMA -> <<"Ollama">>]

\* the package each initialize() imports
PackageName ==
    [p \in AIProvider |->
        CASE p = GEMINI -> <<"google-generativeai">>
          [] p = OPENAI -> <<"openai">>
          [] p = ANTHROPIC -> <<"anthropic">>
          [] p = OLLAMA -> <<"requests">>]

\* initialize() of Gemini, OpenAI and Anthropic: the package, then the key, then the client
InitializeKeyed(adapter, configs, env) ==
    IF ~ env.installed
    THEN [exc |-> Exc("ImportError", PackageName[adapter.cls] \o <<" package is required for ">>
                                         \o ProviderTitle[adapter.cls] \o <<" provider">>),
          adapter |-> adapter]
    ELSE IF ~ Truthy(configs[adapter.cls].api_key)
    THEN [exc |-> Exc("ValueError", ProviderTitle[adapter.cls] \o <<" API key is required">>),
          adapter |-> adapter]
    ELSE [exc |-> NoExc, adapter |-> [adapter EXCEPT !.client = TRUE]]

\* OllamaProvider.initialize: GET /api/tags must answer 200
InitializeOllama(adapter, env) ==
    IF ~ env.installed
    THEN [exc |-> Exc("ImportError", PackageName[OLLAMA] \o <<" package is required for Ollama provider">>),
          adapter |-> adapter]
    ELSE IF ~ env.reachable
    THEN [exc |-> Exc("ConnectionError", <<"Failed to connect to Ollama: ", "Cannot connect to Ollama server">>),
          adapter |-> adapter]
    ELSE [exc |-> NoExc, adapter |-> adapter]

initialize(adapter, configs, env) ==
    IF adapter.cls = OLLAMA THEN InitializeOllama(adapter, env)
    ELSE InitializeKeyed(adapter, configs, env)

\* create_provider that returns the new adapter whatever initialize() did
create_provider_unchecked(cls, configs, env) ==
    IF cls \notin AIProvider
    THEN [exc |-> Exc("ValueError", <<"Unsupported AI provider: ", cls>>), adapter |-> NoAdapter]
    ELSE [exc |-> NoExc, adapter |-> initialize(NewAdapter(cls), configs, env).adapter]

\* AIProviderFactory.create_provider(config), config the ModelConfig of provider cls;
\* when it raises there is no adapter
create_provider(cls, configs, env) ==
    IF cls \notin AIProvider
    THEN [exc |-> Exc("ValueError", <<"Unsupported AI provider: ", cls>>), adapter |-> NoAdapter]
    ELSE LET r == initialize(NewAdapter(cls), configs, env)
         IN  IF r.exc # NoExc THEN [exc |-> r.exc, adapter |-> NoAdapter] ELSE r

\* add_to_history without its second append
add_to_history_user_only(history, user_input, ai_response) ==
    history \o << <<"U", "s", "e", "r", ":", " ">> \o Format(user_input) >>

\* add_to_history with the two appends in the other order
add_to_history_assistant_first(history, user_input, ai_response) ==
    history \o << <<"A", "s", "s", "i", "s", "t", "a", "n", "t", ":", " ">> \o Format(ai_response), <<"U", "s", "e", "r", ":", " ">> \o Format(user_input) >>

\* BaseAIProvider.add_to_history
add_to_history(history, user_input, ai_response) ==
    history \o << <<"U", "s", "e", "r", ":", " ">> \o Format(user_input), <<"A", "s", "s", "i", "s", "t", "a", "n", "t", ":", " ">> \o Format(ai_response) >>

\* clear_history that empties a copy of the list and leaves the adapter's own
clear_history_of_copy(adapter) == adapter

\* BaseAIProvider.clear_history
clear_history(adapter) == [adapter EXCEPT !.conversation_history = <<>>]

\* BaseAIProvider.get_history
get_history(adapter) == adapter.conversation_history

\* conversation_history[-limit:]: a negative start counts from the end and stops at the
\* first entry, a start of 0 or more counts from the first entry (-0 is 0)
LastEntries(history, limit) ==
    LET n == Len(history)
        start == IF - limit < 0
                 THEN (IF n - limit < 0 THEN 0 ELSE n - limit)
                 ELSE (IF - limit > n THEN n ELSE - limit)
    IN  SubSeq(history, start + 1, n)

DefaultContextLimit == 20

\* BaseAIProvider.get_context
get_context(history, limit) ==
    IF history # <<>> THEN Join(<<"\n">>, LastEntries(history, limit)) ELSE <<>>

\* what the backend does with one request
Raises(text) == [kind |-> "raises", value |-> None, text |-> text]
Status(code) == [kind |-> "status", value |-> None, text |-> IntStr(code)]
Malformed == [kind |-> "malformed", value |-> None, text |-> <<>>]
NoField == [kind |-> "nofield", value |-> None, text |-> <<>>]
Content(value) == [kind |-> "content", value |-> value, text |-> <<>>]
NoReply == [kind |-> "none", value |-> None, text |-> <<>>]

\* a transport error, an auth error, a non-OK status, an unusable body, a reply with
\* text, with empty text or with null text; Ollama's JSON may also lack "response"
Replies(cls) ==
    { Raises(<<"Connection error.">>), Raises(<<"Incorrect API key provided">>),
      Status(500), Malformed,
      Content(Str(<<"Fine.">>)), Content(Str(<<>>)), Content(None) }
    \cup (IF cls = OLLAMA THEN {NoField} ELSE {})

\* the result of a call: the exception it raises or NoExc, the value it returns, the
\* history it leaves, the requests it made to the backend and what it sent
Outcome(exc, ret, history, calls, sent) ==
    [exc |-> exc, ret |-> ret, history |-> history, calls |-> calls, sent |-> sent]

\* the prompt of the three adapters that send one text
FullPrompt(history, prompt) ==
    LET context == get_context(history, DefaultContextLimit)
    IN  IF context # <<>>
        THEN <<"Previous conversation:\n">> \o context \o <<"\n\nCurrent user input: ">>
                 \o prompt \o <<"\n\nPlease respond naturally and helpfully:">>
        ELSE prompt

RECURSIVE HistoryMessages(_, _)
\* OpenAIProvider.generate_response, lines 112-117: the entries from index i (0-based), by twos
HistoryMessages(history, i) ==
    IF i >= Len(history) THEN <<>>
    ELSE (IF i + 1 < Len(history)
          THEN << [role |-> "user", content |-> Replace(history[i + 1], <<"U", "s", "e", "r", ":", " ">>, <<>>)],
                  [role |-> "assistant", content |-> Replace(history[i + 2], <<"A", "s", "s", "i", "s", "t", "a", "n", "t", ":", " ">>, <<>>)] >>
          ELSE <<>>)
         \o HistoryMessages(history, i + 2)

\* the messages with the unpaired last entry of an odd-length history sent as well
MessagesWithTrailingEntry(history, prompt) ==
    << [role |-> "system", content |-> <<"You are a helpful AI assistant.">>] >>
        \o HistoryMessages(history, 0)
        \o (IF Len(history) % 2 = 1
            THEN << [role |-> "user",
                     content |-> Replace(history[Len(history)], <<"U", "s", "e", "r", ":", " ">>, <<>>)] >>
            ELSE <<>>)
        \o << [role |-> "user", content |-> prompt] >>

\* OpenAIProvider.generate_response, lines 109-120
Messages(history, prompt) ==
    << [role |-> "system", content |-> <<"You are a helpful AI assistant.">>] >>
        \o HistoryMessages(history, 0)
        \o << [role |-> "user", content |-> prompt] >>

\* the error of a request the backend did not answer with a usable reply
BackendError(reply) ==
    CASE reply.kind = "raises" -> Exc("APIError", reply.text)
      [] reply.kind = "status" -> Exc("APIStatusError", <<"Error code: ">> \o reply.text)
      [] OTHER -> NoExc

NoClient(attribute) ==
    Exc("AttributeError", <<"'NoneType' object has no attribute '", attribute, "'">>)

\* an except clause that names the transport errors only
CaughtByExceptTransport(exc) == exc.type \in {"APIError", "APIStatusError", "ConnectionError"}

\* an `except Exception as e` clause: every exception of the model is an Exception
CaughtByExceptException(exc) == exc.type # "none"

\* lines 82-84, 133-135, 178-180 and 238-240: the handler around the body
ExceptException(body, history, title) ==
    IF CaughtByExceptException(body.exc)
    THEN Outcome(NoExc,
                 Str(<<"I'm sorry", ", I encountered an error: ", "Error with ">> \o title
                         \o <<": ">> \o body.exc.text),
                 history, body.calls, body.sent)
    ELSE body

\* GeminiProvider.generate_response, the body of its try
GeminiBody(adapter, prompt, reply) ==
    LET history == adapter.conversation_history
        full_prompt == FullPrompt(history, prompt.v)
    IN  IF ~ adapter.client
        THEN Outcome(NoClient("generate_content"), None, history, 0, <<>>)
        ELSE IF reply.kind \in {"raises", "status"}
        THEN Outcome(BackendError(reply), None, history, 1, full_prompt)
        ELSE IF reply.kind = "malformed"
        THEN Outcome(Exc("ValueError", <<"The response.text quick accessor requires a valid Part">>),
                     None, history, 1, full_prompt)
        ELSE LET ai_response ==
                     IF Truthy(reply.value) THEN reply.value
                     ELSE Str(<<"I'm sorry", ", I couldn't generate a response.">>)
             IN  Outcome(NoExc, ai_response, add_to_history(history, prompt, ai_response),
                         1, full_prompt)

\* OpenAIProvider.generate_response, the body of its try
OpenAIBody(adapter, prompt, reply) ==
    LET history == adapter.conversation_history
        messages == Messages(history, prompt.v)
    IN  IF ~ adapter.client
        THEN Outcome(NoClient("chat"), None, history, 0, <<>>)
        ELSE IF reply.kind \in {"raises", "status"}
        THEN Outcome(BackendError(reply), None, history, 1, messages)
        ELSE IF reply.kind = "malformed"
        THEN Outcome(Exc("IndexError", <<"list index out of range">>), None, history, 1, messages)
        ELSE Outcome(NoExc, reply.value, add_to_history(history, prompt, reply.value),
                     1, messages)

\* AnthropicProvider.generate_response, the body of its try
AnthropicBody(adapter, prompt, reply) ==
    LET history == adapter.conversation_history
        full_prompt == FullPrompt(history, prompt.v)
    IN  IF ~ adapter.client
        THEN Outcome(NoClient("messages"), None, history, 0, <<>>)
        ELSE IF reply.kind \in {"raises", "status"}
        THEN Outcome(BackendError(reply), None, history, 1, full_prompt)
        ELSE IF reply.kind = "malformed"
        THEN Outcome(Exc("IndexError", <<"list index out of range">>), None, history, 1, full_prompt)
        ELSE Outcome(NoExc, reply.value, add_to_history(history, prompt, reply.value),
                     1, full_prompt)

\* OllamaProvider.generate_response, the body of its try
OllamaBody(adapter, prompt, reply) ==
    LET history == adapter.conversation_history
        full_prompt == FullPrompt(history, prompt.v)
    IN  IF reply.kind = "raises"
        THEN Outcome(Exc("ConnectionError", reply.text), None, history, 1, full_prompt)
        ELSE IF reply.kind = "status"
        THEN Outcome(NoExc, Str(<<"Error: Ollama server returned status ">> \o reply.text),
                     history, 1, full_prompt)
        ELSE IF reply.kind = "malformed"
        THEN Outcome(Exc("JSONDecodeError", <<"Expecting value: line 1 column 1 (char 0)">>),
                     None, history, 1, full_prompt)
        ELSE LET ai_response ==
                     IF reply.kind = "nofield" THEN Str(<<"No response generated">>)
                     ELSE reply.value
             IN  Outcome(NoExc, ai_response, add_to_history(history, prompt, ai_response),
                         1, full_prompt)

\* generate_response of the adapter's class
generate_response(adapter, prompt, reply) ==
    LET history == adapter.conversation_history
    IN  CASE adapter.cls = GEMINI ->
                 ExceptException(GeminiBody(adapter, prompt, reply), history, <<"Gemini">>)
          [] adapter.cls = OPENAI ->
                 ExceptException(OpenAIBody(adapter, prompt, reply), history, <<"OpenAI">>)
          [] adapter.cls = ANTHROPIC ->
                 ExceptException(AnthropicBody(adapter, prompt, reply), history, <<"Anthropic">>)
          [] adapter.cls = OLLAMA ->
                 ExceptException(OllamaBody(adapter, prompt, reply), history, <<"Ollama">>)

----------------------------------------------------------------------------
(* brain.py *)

NoBrain == [exists |-> FALSE, config |-> "none"]
NoDecision == [is_relevant |-> FALSE, redirect_message |-> None]

\* the record of a call: what was called with what, what it raised or returned, the
\* classifier's decision and the backend's reply if it came to them, the requests made
Call(op, arg, exc, ret, calls, decision, reply) ==
    [op |-> op, arg |-> arg, exc |-> exc, ret |-> ret, calls |-> calls,
     decision |-> decision, reply |-> reply, sent |-> [form |-> "none", body |-> <<>>]]

\* what a generate_response called on the adapter gave to the backend: the messages list
\* of OpenAI, or the one text of the others
Sent(cls, calls, sent) ==
    IF calls = 0 THEN [form |-> "none", body |-> <<>>]
    ELSE [form |-> IF cls = OPENAI THEN "messages" ELSE "text", body |-> sent]

NoCall == Call("none", None, NoExc, None, 0, NoDecision, NoReply)

\* the decisions check_query_relevance(user_prompt) can return; a value that is not a
\* str has no lower(), and the call raises before it decides
Decisions(user_prompt, files) ==
    IF IsStr(user_prompt) THEN check_query_relevance(user_prompt.v, files) ELSE {NoDecision}

\* line 37 without its test of is_relevant
ReachesAdapterAlways(user_prompt, decision) == IsStr(user_prompt)

\* Brain.think, lines 35-38: the call goes on to the adapter
ReachesAdapter(user_prompt, decision) ==
    IsStr(user_prompt) /\ ~ (~ decision.is_relevant /\ Truthy(decision.redirect_message))

\* type(x).__name__ of a value that is not a str
TypeName(x) == IF x.k = "none" THEN "NoneType" ELSE x.k

\* Brain.think, lines 35-44: the body of its try
ThinkBody(adapter, files, ctx, user_prompt, decision, reply) ==
    LET history == adapter.conversation_history
    IN  IF ~ IsStr(user_prompt)
        THEN Outcome(Exc("AttributeError", <<"'", TypeName(user_prompt),
                                             "' object has no attribute 'lower'">>),
                     None, history, 0, <<>>)
        ELSE IF ~ ReachesAdapter(user_prompt, decision)
        THEN Outcome(NoExc, decision.redirect_message, history, 0, <<>>)
        ELSE generate_response(adapter,
                               Str(enhance_prompt_with_context(user_prompt.v, files, ctx)),
                               reply)

\* a handler that returns the error_message it builds for the log
ThinkExceptWithDetail(body) ==
    IF CaughtByExceptException(body.exc)
    THEN Outcome(NoExc,
                 Str(<<"Error processing prompt with ", "provider", ": ">> \o body.exc.text),
                 body.history, body.calls, body.sent)
    ELSE body

\* Brain.think, lines 46-49: the handler
ThinkExcept(body) ==
    IF CaughtByExceptException(body.exc)
    THEN Outcome(NoExc,
                 Str(<<"I'm sorry", ", I encountered an error while processing your request. Please try again.">>),
                 body.history, body.calls, body.sent)
    ELSE body

\* Brain.think
think(adapter, files, ctx, user_prompt, decision, reply) ==
    ThinkExcept(ThinkBody(adapter, files, ctx, user_prompt, decision, reply))

\* the result of Brain.switch_model: what it raises or returns, and the new
\* Config.ACTIVE_MODEL, Brain.config and Brain.ai_provider
Switched(exc, ret, active, config, adapter) ==
    [exc |-> exc, ret |-> ret, active |-> active, config |-> config, adapter |-> adapter]

\* Brain.switch_model, line 67: the handler formats provider.value
SwitchFailed(provider, e, active, config, adapter) ==
    IF provider.k = "enum"
    THEN Switched(NoExc, Str(<<"Failed to switch to ">> \o <<provider.v>> \o <<": ">> \o e.text),
                  active, config, adapter)
    ELSE Switched(Exc("AttributeError", <<"object has no attribute 'value'">>), None,
                  active, config, adapter)

\* switch_model that re-initializes the adapter it has instead of making a new one
switch_model_keeping_history(active, config, adapter, configs, provider, env) ==
    LET switched == ConfigSwitchModel(active, provider)
    IN  IF switched.exc # NoExc
        THEN SwitchFailed(provider, switched.exc, active, config, adapter)
        ELSE LET new_config == get_active_config(switched.active)
                 created == create_provider(new_config, configs, env)
             IN  IF created.exc # NoExc
                 THEN SwitchFailed(provider, created.exc, switched.active, new_config, adapter)
                 ELSE Switched(NoExc,
                               Str(<<"Switched to ">> \o <<provider.v>> \o <<" model: ">>
                                       \o configs[new_config].model_name),
                               switched.active, new_config,
                               [created.adapter EXCEPT
                                   !.conversation_history = adapter.conversation_history])

\* switch_model that takes the new adapter also when its initialize() failed
switch_model_adopting_failed(active, config, adapter, configs, provider, env) ==
    LET switched == ConfigSwitchModel(active, provider)
    IN  IF switched.exc # NoExc
        THEN SwitchFailed(provider, switched.exc, active, config, adapter)
        ELSE LET new_config == get_active_config(switched.active)
                 created == create_provider(new_config, configs, env)
             IN  IF created.exc # NoExc
                 THEN SwitchFailed(provider, created.exc, switched.active, new_config,
                                   NewAdapter(new_config))
                 ELSE Switched(NoExc,
                               Str(<<"Switched to ">> \o <<provider.v>> \o <<" model: ">>
                                       \o configs[new_config].model_name),
                               switched.active, new_config, created.adapter)

\* Brain.switch_model
switch_model(active, config, adapter, configs, provider, env) ==
    LET switched == ConfigSwitchModel(active, provider)
    IN  IF switched.exc # NoExc
        THEN SwitchFailed(provider, switched.exc, active, config, adapter)
        ELSE LET new_config == get_active_config(switched.active)
                 created == create_provider(new_config, configs, env)
             IN  IF created.exc # NoExc
                 THEN SwitchFailed(provider, created.exc, switched.active, new_config, adapter)
                 ELSE Switched(NoExc,
                               Str(<<"Switched to ">> \o <<provider.v>> \o <<" model: ">>
                                       \o configs[new_config].model_name),
                               switched.active, new_config, created.adapter)

\* Brain.get_current_model_info, the provider it reports
get_current_model_info(b) == b.config

----------------------------------------------------------------------------
(* chatbot_server.py *)

\* str.strip() of a text with spaces and newlines around it
RECURSIVE Strip(_)
Strip(s) ==
    IF s = <<>> THEN s
    ELSE IF Head(s) \in {" ", "\n"} THEN Strip(Tail(s))
    ELSE IF s[Len(s)] \in {" ", "\n"} THEN Strip(SubSeq(s, 1, Len(s) - 1))
    ELSE s

\* chat(), lines 56-75: the message given to brain.think
ContextMessage(user_message, names) ==
    IF names # <<>>
    THEN <<"\n", " ", " ", " ", " ", " ", " ", " ", " ", " ", " ", " ", " ", "C", "o", "n", "t", "e", "x", "t", ":", " ", "T", "h", "e", " ", "u", "s", "e", "r", " ", "h", "a", "s", " ", "u", "p", "l", "o", "a", "d", "e", "d", " ", "a", "n", "d", " ", "I", " ", "a", "m", " ", "c", "u", "r", "r", "e", "n", "t", "l", "y", " ", "a", "n", "a", "l", "y", "z", "i", "n", "g", " ", "t", "h", "e", " ", "f", "i", "l", "e", " ", "'">> \o names[1]
         \o <<"'", ".", " ", "\n", " ", " ", " ", " ", " ", " ", " ", " ", " ", " ", " ", " ", "P", "l", "e", "a", "s", "e", " ", "f", "o", "c", "u", "s", " ", "y", "o", "u", "r", " ", "r", "e", "s", "p", "o", "n", "s", "e", " ", "o", "n", " ", "t", "h", "i", "s", " ", "s", "p", "e", "c", "i", "f", "i", "c", " ", "d", "a", "t", "a", "s", "e", "t", " ", "a", "n", "d", " ", "p", "r", "o", "v", "i", "d", "e", " ", "i", "n", "s", "i", "g", "h", "t", "s", ",", " ", "a", "n", "a", "l", "y", "s", "i", "s", ",", " ", "o", "r", " ", "a", "n", "s", "w", "e", "r", "s", " ", "\n", " ", " ", " ", " ", " ", " ", " ", " ", " ", " ", " ", " ", "r", "e", "l", "a", "t", "e", "d", " ", "t", "o", " ", "t", "h", "i", "s", " ", "u", "p", "l", "o", "a", "d", "e", "d", " ", "f", "i", "l", "e", ".", " ", "S", "t", "e", "e", "r", " ", "t", "h", "e", " ", "c", "o", "n", "v", "e", "r", "s", "a", "t", "i", "o", "n", " ", "t", "o", "w", "a", "r", "d", " ", "a", "n", "a", "l", "y", "z", "i", "n", "g", " ", "t", "h", "i", "s", " ", "d", "a", "t", "a", ".", "\n", " ", " ", " ", " ", " ", " ", " ", " ", " ", " ", " ", " ", "\n", " ", " ", " ", " ", " ", " ", " ", " ", " ", " ", " ", " ", "U", "s", "e", "r", " ", "q", "u", "e", "s", "t", "i", "o", "n", ":", " ">> \o user_message
         \o <<"\n", " ", " ", " ", " ", " ", " ", " ", " ", " ", " ", " ", " ">>
    ELSE <<"\n", " ", " ", " ", " ", " ", " ", " ", " ", " ", " ", " ", " ", "C", "o", "n", "t", "e", "x", "t", ":", " ", "N", "o", " ", "d", "a", "t", "a", " ", "f", "i", "l", "e", " ", "h", "a", "s", " ", "b", "e", "e", "n", " ", "u", "p", "l", "o", "a", "d", "e", "d", " ", "y", "e", "t", ".", " ", "E", "n", "c", "o", "u", "r", "a", "g", "e", " ", "t", "h", "e", " ", "u", "s", "e", "r", " ", "t", "o", " ", "u", "p", "l", "o", "a", "d", " ", "a", " ", "h", "e", "a", "l", "t", "h", "c", "a", "r", "e", " ", "\n", " ", " ", " ", " ", " ", " ", " ", " ", " ", " ", " ", " ", "d", "a", "t", "a", " ", "f", "i", "l", "e", " ", "s", "o", " ", "I", " ", "c", "a", "n", " ", "p", "r", "o", "v", "i", "d", "e", " ", "s", "p", "e", "c", "i", "f", "i", "c", " ", "a", "n", "a", "l", "y", "s", "i", "s", " ", "a", "n", "d", " ", "i", "n", "s", "i", "g", "h", "t", "s", " ", "a", "b", "o", "u", "t", " ", "t", "h", "e", "i", "r", " ", "d", "a", "t", "a", ".", "\n", " ", " ", " ", " ", " ", " ", " ", " ", " ", " ", " ", " ", "\n", " ", " ", " ", " ", " ", " ", " ", " ", " ", " ", " ", " ", "U", "s", "e", "r", " ", "q", "u", "e", "s", "t", "i", "o", "n", ":", " ">> \o user_message
         \o <<"\n", " ", " ", " ", " ", " ", " ", " ", " ", " ", " ", " ", " ">>

\* the values of the members of AIProvider, as text
MemberValue ==
    [p \in AIProvider |->
        CASE p = GEMINI -> <<"g", "e", "m", "i", "n", "i">>
          [] p = OPENAI -> <<"o", "p", "e", "n", "a", "i">>
          [] p = ANTHROPIC -> <<"a", "n", "t", "h", "r", "o", "p", "i", "c">>
          [] p = OLLAMA -> <<"o", "l", "l", "a", "m", "a">>]

\* a handler that is not in a call of the Brain
Idle ==
    [pc |-> "idle", arg |-> None, adapter |-> NoAdapter, prompt |-> None,
     detached |-> FALSE, pending |-> <<>>, ret |-> None]

----------------------------------------------------------------------------
(* bounds and inputs *)

\* the longest history kept, in (user, assistant) pairs
MaxTurns == 1

\* what is given to think: no value, an int, small talk, an off-topic question,
\* a request about data
ThinkInputs ==
    { None, [k |-> "int", v |-> <<"5">>], Str(<<"h", "i">>), Str(<<"w", "h", "a", "t", "'", "s", " ", "t", "h", "e", " ", "w", "e", "a", "t", "h", "e", "r", "?">>),
      Str(<<"l", "o", "a", "d", " ", "d", "a", "t", "a">>) }

\* the longest history of an adapter used on its own, in (user, assistant) pairs
MaxAdapterTurns == 2

\* the prompts given to an adapter used on its own
AdapterPrompts == { Str(<<"h", "i">>), Str(<<"U", "s", "e", "r", ":", " ", "a">>) }

\* the texts given to the classifier used on its own
GuardInputs ==
    { <<>>, <<"h", "i">>, <<"l", "o", "a", "d">>, <<"l", "o", "a", "d", " ", "d", "a", "t", "a">>, <<"s", "h", "o", "w", " ", "s", "a", "l", "e", "s">>, <<"w", "h", "a", "t", "'", "s", " ", "t", "h", "e", " ", "w", "e", "a", "t", "h", "e", "r", "?">>,
      <<"W", "E", "A", "T", "H", "E", "R", " ", "d", "a", "t", "a">>, <<"c", "o", "d", "e", " ", "d", "a", "t", "a">>, <<"d", "a", "t", "a", " ", "c", "o", "d", "e">>, <<"c", "o", "d", "e", "\n", "d", "a", "t", "a">>, <<"n", "e", "w", "s", "l", "e", "t", "t", "e", "r">>,
      <<"u", "p", "l", "o", "a", "d", " ", "j", "o", "k", "e">>, <<"m", "y", " ", "f", "i", "l", "e", ",", " ", "h", "e", "a", "l", "t", "h">>, <<"M", "u", "s", "i", "c", " ", "f", "i", "l", "e">>, <<"d", "e", "c", "o", "d", "e", " ", "f", "i", "l", "e">>,
      <<"t", "h", "e", " ", "s", "o", "f", "t", "w", "a", "r", "e">>, <<"D", "A", "T", "A">>, <<"t", "e", "l", "l", " ", "m", "e", " ", "a", " ", "j", "o", "k", "e">>, <<"f", "o", "o", "d", "_", "d", "a", "t", "a">>, <<"r", "e", "l", "o", "a", "d", " ", "r", "e", "c", "i", "p", "e">> }

\* the filenames given to brain.load_data_file: one file that loads, and each kind of failure
BrainFilenames == Filenames \ {<<"t", ".", "c", "s", "v">>}

\* the provider of the ModelConfig given to create_provider: the four members, and a
\* provider the factory does not know
FactoryProviders == AIProvider \cup {"mistral"}

\* the providers given to update_api_key: two members, and one Config does not have
KeyProviders == {GEMINI, OPENAI, "mistral"}

\* the keys given to update_api_key: none, an empty one, one the user has set
ApiKeys == { None, Str(<<>>), Str(<<"s", "k", "-", "1">>) }

\* the longest history of a long conversation, in (user, assistant) pairs
MaxReplayTurns == 12

\* a long conversation: one prompt, a backend that answers or fails
ReplayPrompts == { Str(<<"h", "i">>) }
ReplayReplies == { Content(Str(<<"Fine.">>)), Raises(<<"Connection error.">>) }

\* the limits given to get_context; get_context() is get_context(DefaultContextLimit)
ContextLimits == { 0, 1, 3, DefaultContextLimit }

\* the longest stored history the OpenAI adapter is given to rebuild its messages from
MaxStoredEntries == 4

\* the entries of such a history, and the histories: any entries in any order, of even
\* and of odd length
StoredEntries == { <<"U", "s", "e", "r", ":", " ", "a">>, <<"A", "s", "s", "i", "s", "t", "a", "n", "t", ":", " ", "b">>, <<"U", "s", "e", "r", ":", " ", "c">> }
StoredHistories ==
    UNION { [1..n -> StoredEntries] : n \in 0..MaxStoredEntries }

\* the request handlers the web server runs at a time, and the longest history of the
\* Brain they share, in (user, assistant) pairs
MaxHandlers == 2
MaxServerTurns == 2
Handlers == 1..MaxHandlers

\* the messages posted to /api/chat and the provider names posted to /api/model/switch
ServerMessages == { <<"h", "i", " ">>, <<"t", "e", "l", "l", " ", "m", "e", " ", "a", " ", "j", "o", "k", "e">> }
ServerProviders == { <<"G", "e", "m", "i", "n", "i">>, <<"o", "l", "l", "a", "m", "a">>, <<"m", "i", "s", "t", "r", "a", "l">> }

\* the arguments of switch_model: the four members, and a str that is no member
SwitchArguments == {Member(p) : p \in AIProvider} \cup {Str(<<"g", "e", "m", "i", "n", "i">>)}

----------------------------------------------------------------------------
(* the orchestrator and its callers *)

Init ==
    /\ ACTIVE_MODEL = OPENAI
    /\ API_KEYS = InitialApiKeys
    /\ MODEL_CONFIGS = InitialModelConfigs
    /\ brain = NoBrain
    /\ ai_provider = NoAdapter
    /\ loaded_files = <<>>
    /\ current_file_context = None
    /\ last = NoCall
    /\ requests = [h \in Handlers |-> Idle]

\* Brain(): a failed create_provider raises RuntimeError and there is no Brain
BrainInit(env) ==
    /\ ~ brain.exists
    /\ LET config == get_active_config(ACTIVE_MODEL)
           created == create_provider(config, MODEL_CONFIGS, env)
       IN  IF created.exc # NoExc
           THEN /\ last' = Call("Brain", None,
                                Exc("RuntimeError", <<"Failed to initialize AI provider (">> \o <<config>>
                                        \o <<"): ">> \o created.exc.text),
                                None, 0, NoDecision, NoReply)
                /\ UNCHANGED <<requests, brain, ai_provider, loaded_files, current_file_context>>
           ELSE /\ brain' = [exists |-> TRUE, config |-> config]
                /\ ai_provider' = created.adapter
                /\ loaded_files' = <<>>
                /\ current_file_context' = None
                /\ last' = Call("Brain", None, NoExc, None, 0, NoDecision, NoReply)
    /\ UNCHANGED <<requests, ACTIVE_MODEL, API_KEYS, MODEL_CONFIGS>>

\* brain.think(user_prompt); a reply is drawn only when the call gets as far as the adapter
Think(user_prompt) ==
    /\ brain.exists
    /\ \E decision \in Decisions(user_prompt, loaded_files) :
       \E reply \in (IF ReachesAdapter(user_prompt, decision)
                     THEN Replies(ai_provider.cls) ELSE {NoReply}) :
          LET r == think(ai_provider, loaded_files, current_file_context,
                         user_prompt, decision, reply)
          IN  /\ Len(r.history) <= 2 * MaxTurns
              /\ ai_provider' = [ai_provider EXCEPT !.conversation_history = r.history]
              /\ last' = Call("think", user_prompt, r.exc, r.ret, r.calls, decision, reply)
    /\ UNCHANGED <<requests, ACTIVE_MODEL, API_KEYS, MODEL_CONFIGS, brain, loaded_files,
                   current_file_context>>

\* brain.clear_history()
ClearHistory ==
    /\ brain.exists
    /\ ai_provider' = clear_history(ai_provider)
    /\ last' = Call("clear_history", None, NoExc, None, 0, NoDecision, NoReply)
    /\ UNCHANGED <<requests, ACTIVE_MODEL, API_KEYS, MODEL_CONFIGS, brain, loaded_files,
                   current_file_context>>

\* brain.switch_model(provider)
SwitchModel(provider, env) ==
    /\ brain.exists
    /\ LET r == switch_model(ACTIVE_MODEL, brain.config, ai_provider, MODEL_CONFIGS,
                             provider, env)
       IN  /\ ACTIVE_MODEL' = r.active
           /\ brain' = [brain EXCEPT !.config = r.config]
           /\ ai_provider' = r.adapter
           /\ last' = Call("switch_model", provider, r.exc, r.ret, 0, NoDecision, NoReply)
    /\ UNCHANGED <<requests, API_KEYS, MODEL_CONFIGS, loaded_files, current_file_context>>

\* file_processor.load_file(filename)
LoadFile(filename) ==
    /\ LET r == load_file(loaded_files, current_file_context, filename)
       IN  /\ loaded_files' = r.files
           /\ current_file_context' = r.ctx
           /\ last' = Call("load_file", Str(filename), NoExc, Str(r.message), 0,
                           NoDecision, NoReply)
    /\ UNCHANGED <<requests, ACTIVE_MODEL, API_KEYS, MODEL_CONFIGS, brain, ai_provider>>

\* brain.load_data_file(filename)
LoadDataFile(filename) == brain.exists /\ LoadFile(filename)

Next ==
    \/ \E env \in InitEnvs : BrainInit(env)
    \/ \E user_prompt \in ThinkInputs : Think(user_prompt)
    \/ ClearHistory
    \/ \E provider \in SwitchArguments : \E env \in InitEnvs : SwitchModel(provider, env)
    \/ \E filename \in BrainFilenames : LoadDataFile(filename)

Spec == Init /\ [][Next]_vars

----------------------------------------------------------------------------
(* an adapter used on its own *)

\* GeminiProvider(config), OpenAIProvider(config), ...: a new adapter, not initialized
Construct(cls) ==
    /\ ai_provider' = NewAdapter(cls)
    /\ last' = Call("construct", Member(cls), NoExc, None, 0, NoDecision, NoReply)
    /\ UNCHANGED <<requests, ACTIVE_MODEL, API_KEYS, MODEL_CONFIGS, brain, loaded_files,
                   current_file_context>>

\* adapter.initialize()
Initialize(env) ==
    /\ ai_provider # NoAdapter
    /\ LET r == initialize(ai_provider, MODEL_CONFIGS, env)
       IN  /\ ai_provider' = r.adapter
           /\ last' = Call("initialize", [k |-> "env", v |-> env], r.exc, None, 0,
                           NoDecision, NoReply)
    /\ UNCHANGED <<requests, ACTIVE_MODEL, API_KEYS, MODEL_CONFIGS, brain, loaded_files,
                   current_file_context>>

\* adapter.generate_response(prompt), while the history has at most max_turns pairs
GenerateResponseWithin(prompt, reply, max_turns) ==
    /\ ai_provider # NoAdapter
    /\ LET r == generate_response(ai_provider, prompt, reply)
       IN  /\ Len(r.history) <= 2 * max_turns
           /\ ai_provider' = [ai_provider EXCEPT !.conversation_history = r.history]
           /\ last' = [Call("generate_response", prompt, r.exc, r.ret, r.calls, NoDecision,
                            IF r.calls > 0 THEN reply ELSE NoReply)
                       EXCEPT !.sent = Sent(ai_provider.cls, r.calls, r.sent)]
    /\ UNCHANGED <<requests, ACTIVE_MODEL, API_KEYS, MODEL_CONFIGS, brain, loaded_files,
                   current_file_context>>

GenerateResponse(prompt, reply) == GenerateResponseWithin(prompt, reply, MaxAdapterTurns)

\* adapter.clear_history()
AdapterClearHistory ==
    /\ ai_provider # NoAdapter
    /\ ai_provider' = clear_history(ai_provider)
    /\ last' = Call("clear_history", None, NoExc, None, 0, NoDecision, NoReply)
    /\ UNCHANGED <<requests, ACTIVE_MODEL, API_KEYS, MODEL_CONFIGS, brain, loaded_files,
                   current_file_context>>

NextAdapter ==
    \/ \E cls \in AIProvider : Construct(cls)
    \/ \E env \in InitEnvs : Initialize(env)
    \/ \E prompt \in AdapterPrompts : \E reply \in Replies(ai_provider.cls) :
           GenerateResponse(prompt, reply)
    \/ AdapterClearHistory

SpecAdapter == Init /\ [][NextAdapter]_vars

----------------------------------------------------------------------------
(* the configuration and the factory used on their own *)

\* Config.update_api_key(provider, api_key)
UpdateApiKey(provider, api_key) ==
    /\ LET r == update_api_key(API_KEYS, MODEL_CONFIGS, provider, api_key)
       IN  /\ API_KEYS' = r.keys
           /\ MODEL_CONFIGS' = r.configs
           /\ last' = Call("update_api_key",
                           IF provider \in AIProvider THEN Member(provider)
                           ELSE Str(<<provider>>),
                           r.exc, None, 0, NoDecision, NoReply)
    /\ UNCHANGED <<requests, ACTIVE_MODEL, brain, ai_provider, loaded_files, current_file_context>>

\* Config.switch_model(provider)
ConfigSwitch(provider) ==
    /\ LET r == ConfigSwitchModel(ACTIVE_MODEL, provider)
       IN  /\ ACTIVE_MODEL' = r.active
           /\ last' = Call("Config.switch_model", provider, r.exc, None, 0, NoDecision,
                           NoReply)
    /\ UNCHANGED <<requests, API_KEYS, MODEL_CONFIGS, brain, ai_provider, loaded_files,
                   current_file_context>>

\* AIProviderFactory.create_provider(config): the caller holds the adapter it returns
CreateProvider(cls, env) ==
    /\ LET r == create_provider(cls, MODEL_CONFIGS, env)
       IN  /\ ai_provider' = IF r.exc = NoExc THEN r.adapter ELSE ai_provider
           /\ last' = Call("create_provider", [k |-> "config", v |-> cls, env |-> env], r.exc,
                           IF r.exc = NoExc THEN [k |-> "adapter", v |-> r.adapter] ELSE None,
                           0, NoDecision, NoReply)
    /\ UNCHANGED <<requests, ACTIVE_MODEL, API_KEYS, MODEL_CONFIGS, brain, loaded_files,
                   current_file_context>>

NextConfig ==
    \/ \E provider \in KeyProviders : \E api_key \in ApiKeys : UpdateApiKey(provider, api_key)
    \/ \E provider \in SwitchArguments : ConfigSwitch(provider)
    \/ \E cls \in FactoryProviders : \E env \in InitEnvs : CreateProvider(cls, env)
    \/ \E cls \in AIProvider : Construct(cls)
    \/ \E env \in InitEnvs : Initialize(env)

SpecConfig == Init /\ [][NextConfig]_vars

----------------------------------------------------------------------------
(* a long conversation with one adapter *)

\* adapter.get_context(limit)
GetContext(limit) ==
    /\ ai_provider # NoAdapter
    /\ last' = Call("get_context", [k |-> "int", v |-> limit], NoExc,
                    Str(get_context(ai_provider.conversation_history, limit)), 0,
                    NoDecision, NoReply)
    /\ UNCHANGED <<requests, ACTIVE_MODEL, API_KEYS, MODEL_CONFIGS, brain, ai_provider, loaded_files,
                   current_file_context>>

NextReplay ==
    \/ \E cls \in AIProvider : \E env \in InitEnvs : CreateProvider(cls, env)
    \/ \E prompt \in ReplayPrompts : \E reply \in ReplayReplies :
           GenerateResponseWithin(prompt, reply, MaxReplayTurns)
    \/ \E limit \in ContextLimits : GetContext(limit)

SpecReplay == Init /\ [][NextReplay]_vars

----------------------------------------------------------------------------
(* the OpenAI adapter given a stored history *)

\* an initialized OpenAIProvider whose conversation_history is any list of entries
InitMessages ==
    /\ ACTIVE_MODEL = OPENAI
    /\ API_KEYS = InitialApiKeys
    /\ MODEL_CONFIGS = InitialModelConfigs
    /\ brain = NoBrain
    /\ \E history \in StoredHistories :
           ai_provider = [cls |-> OPENAI, client |-> TRUE, conversation_history |-> history]
    /\ loaded_files = <<>>
    /\ current_file_context = None
    /\ last = NoCall
    /\ requests = [h \in Handlers |-> Idle]

NextMessages ==
    \E prompt \in ReplayPrompts : \E reply \in ReplayReplies :
        GenerateResponseWithin(prompt, reply, MaxStoredEntries)

SpecMessages == InitMessages /\ [][NextMessages]_vars

----------------------------------------------------------------------------
(* the web server: its request handlers call the one Brain of the module; each handler
   runs in a thread of its own, and a thread can be suspended while it waits for the
   backend and between two statements *)

\* the entries the calls in flight on the Brain's adapter have still to append
PendingOf(h) ==
    IF requests[h].detached THEN 0
    ELSE IF requests[h].pc = "generating" THEN 2
    ELSE IF requests[h].pc = "appending" THEN 1
    ELSE 0

RECURSIVE PendingUpTo(_)
PendingUpTo(h) == IF h = 0 THEN 0 ELSE PendingOf(h) + PendingUpTo(h - 1)

PendingEntries == PendingUpTo(MaxHandlers)

\* POST /api/chat: chat() up to the request brain.think's adapter makes to the backend;
\* a message the classifier turns away is answered at once
ChatCall(h, message) ==
    /\ brain.exists /\ requests[h].pc = "idle"
    /\ LET user_message == Strip(message)
           context_message == Str(ContextMessage(user_message, list_loaded_files(loaded_files)))
       IN  \E decision \in Decisions(context_message, loaded_files) :
               IF ReachesAdapter(context_message, decision)
               THEN /\ Len(ai_provider.conversation_history) + PendingEntries + 2
                           <= 2 * MaxServerTurns
                    /\ requests' = [requests EXCEPT ![h] =
                           [pc |-> "generating", arg |-> context_message,
                            adapter |-> [ai_provider EXCEPT !.conversation_history = <<>>],
                            prompt |-> Str(enhance_prompt_with_context(
                                               context_message.v, loaded_files,
                                               current_file_context)),
                            detached |-> FALSE, pending |-> <<>>, ret |-> None]]
                    /\ UNCHANGED last
               ELSE /\ last' = Call("think", context_message, NoExc,
                                    decision.redirect_message, 0, decision, NoReply)
                    /\ UNCHANGED requests
    /\ UNCHANGED <<ACTIVE_MODEL, API_KEYS, MODEL_CONFIGS, brain, ai_provider, loaded_files,
                   current_file_context>>

\* the backend answers the request of handler h: generate_response goes on to
\* add_to_history's first append, or returns its error message
BackendReplies(h, reply) ==
    /\ requests[h].pc = "generating"
    /\ LET r == generate_response(requests[h].adapter, requests[h].prompt, reply)
       IN  IF r.history = <<>>
           THEN /\ requests' = [requests EXCEPT ![h] = Idle]
                /\ last' = Call("think", requests[h].arg, r.exc, r.ret, r.calls,
                                NoDecision, reply)
                /\ UNCHANGED ai_provider
           ELSE /\ requests' = [requests EXCEPT ![h].pc = "appending",
                                                ![h].pending = r.history[2],
                                                ![h].ret = r.ret]
                /\ ai_provider' =
                       IF requests[h].detached THEN ai_provider
                       ELSE [ai_provider EXCEPT !.conversation_history =
                                                    Append(@, r.history[1])]
                /\ UNCHANGED last
    /\ UNCHANGED <<ACTIVE_MODEL, API_KEYS, MODEL_CONFIGS, brain, loaded_files,
                   current_file_context>>

\* add_to_history's second append of handler h, and the return of think
SecondAppend(h) ==
    /\ requests[h].pc = "appending"
    /\ ai_provider' =
           IF requests[h].detached THEN ai_provider
           ELSE [ai_provider EXCEPT !.conversation_history = Append(@, requests[h].pending)]
    /\ requests' = [requests EXCEPT ![h] = Idle]
    /\ last' = Call("think", requests[h].arg, NoExc, requests[h].ret, 1, NoDecision, NoReply)
    /\ UNCHANGED <<ACTIVE_MODEL, API_KEYS, MODEL_CONFIGS, brain, loaded_files,
                   current_file_context>>

\* POST /api/model/switch: switch_model() up to create_provider; AIProvider(name) turns
\* an unknown name away before the Brain is called
SwitchCall(h, provider_name) ==
    /\ brain.exists /\ requests[h].pc = "idle"
    /\ IF \E p \in AIProvider : MemberValue[p] = Lower(provider_name)
       THEN LET p == CHOOSE p \in AIProvider : MemberValue[p] = Lower(provider_name)
                switched == ConfigSwitchModel(ACTIVE_MODEL, Member(p))
            IN  /\ ACTIVE_MODEL' = switched.active
                /\ brain' = [brain EXCEPT !.config = get_active_config(switched.active)]
                /\ requests' = [requests EXCEPT ![h] =
                       [Idle EXCEPT !.pc = "creating", !.arg = Member(p)]]
                /\ UNCHANGED last
       ELSE /\ last' = Call("AIProvider", Str(provider_name),
                            Exc("ValueError", provider_name \o <<" is not a valid AIProvider">>),
                            None, 0, NoDecision, NoReply)
            /\ UNCHANGED <<ACTIVE_MODEL, brain, requests>>
    /\ UNCHANGED <<API_KEYS, MODEL_CONFIGS, ai_provider, loaded_files, current_file_context>>

\* create_provider of handler h returns or raises: switch_model takes the new adapter,
\* and the calls in flight on the old one go on with the old one
SwitchFinish(h, env) ==
    /\ requests[h].pc = "creating"
    /\ LET provider == requests[h].arg
           created == create_provider(provider.v, MODEL_CONFIGS, env)
       IN  IF created.exc # NoExc
           THEN /\ last' = Call("switch_model", provider, NoExc,
                                Str(<<"Failed to switch to ">> \o <<provider.v>> \o <<": ">>
                                        \o created.exc.text),
                                0, NoDecision, NoReply)
                /\ requests' = [requests EXCEPT ![h] = Idle]
                /\ UNCHANGED ai_provider
           ELSE /\ last' = Call("switch_model", provider, NoExc,
                                Str(<<"Switched to ">> \o <<provider.v>> \o <<" model: ">>
                                        \o MODEL_CONFIGS[brain.config].model_name),
                                0, NoDecision, NoReply)
                /\ ai_provider' = created.adapter
                /\ requests' = [g \in Handlers |->
                                   IF g = h THEN Idle
                                   ELSE IF requests[g].pc \in {"generating", "appending"}
                                   THEN [requests[g] EXCEPT !.detached = TRUE]
                                   ELSE requests[g]]
    /\ UNCHANGED <<ACTIVE_MODEL, API_KEYS, MODEL_CONFIGS, brain, loaded_files,
                   current_file_context>>

NextServer ==
    \/ \E env \in InitEnvs : BrainInit(env)
    \/ \E h \in Handlers : \E message \in ServerMessages : ChatCall(h, message)
    \/ \E h \in Handlers : \E reply \in ReplayReplies : BackendReplies(h, reply)
    \/ \E h \in Handlers : SecondAppend(h)
    \/ \E h \in Handlers : \E provider_name \in ServerProviders : SwitchCall(h, provider_name)
    \/ \E h \in Handlers : \E env \in InitEnvs : SwitchFinish(h, env)

SpecServer == Init /\ [][NextServer]_vars

----------------------------------------------------------------------------
(* the guardrails used on their own, over a FileProcessor *)

\* guardrails.check_query_relevance(user_input)
CheckQueryRelevance(user_input) ==
    /\ \E decision \in check_query_relevance(user_input, loaded_files) :
           last' = Call("check_query_relevance", Str(user_input), NoExc, None, 0, decision,
                        NoReply)
    /\ UNCHANGED <<requests, ACTIVE_MODEL, API_KEYS, MODEL_CONFIGS, brain, ai_provider, loaded_files,
                   current_file_context>>

\* guardrails.enhance_prompt_with_context(user_input)
EnhancePrompt(user_input) ==
    /\ last' = Call("enhance_prompt_with_context", Str(user_input), NoExc,
                    Str(enhance_prompt_with_context(user_input, loaded_files,
                                                    current_file_context)),
                    0, NoDecision, NoReply)
    /\ UNCHANGED <<requests, ACTIVE_MODEL, API_KEYS, MODEL_CONFIGS, brain, ai_provider, loaded_files,
                   current_file_context>>

NextGuard ==
    \/ \E filename \in Filenames : LoadFile(filename)
    \/ \E user_input \in GuardInputs : CheckQueryRelevance(user_input)
    \/ \E user_input \in GuardInputs : EnhancePrompt(user_input)

SpecGuard == Init /\ [][NextGuard]_vars

----------------------------------------------------------------------------
(* properties *)

\* a switch_model call that returned its confirmation
SwitchSucceeded(call) ==
    /\ call.op = "switch_model" /\ call.exc = NoExc
    /\ IsStr(call.ret) /\ Len(call.ret.v) > 0 /\ Head(call.ret.v) = "Switched to "

\* a switch_model call for a member of AIProvider that returned its failure message
SwitchInitFailed(call) ==
    /\ call.op = "switch_model" /\ call.exc = NoExc /\ call.arg.k = "enum"
    /\ IsStr(call.ret) /\ Len(call.ret.v) > 0 /\ Head(call.ret.v) = "Failed to switch to "

\* C1: a switch_model(p) that fails because the adapter for p cannot be created or
\* initialized leaves the adapter, its history and the active provider (Config.ACTIVE_MODEL
\* and the provider get_current_model_info reports) as they were before the call.
C1_FailedSwitchChangesNothing ==
    [][SwitchInitFailed(last') =>
          /\ ai_provider' = ai_provider
          /\ ACTIVE_MODEL' = ACTIVE_MODEL
          /\ get_current_model_info(brain') = get_current_model_info(brain)]_vars

C3_NotRelevantBypassesAdapter ==
    [][(last'.op = "think" /\ IsStr(last'.arg) /\ ~ last'.decision.is_relevant) =>
          /\ last'.exc = NoExc
          /\ last'.ret = last'.decision.redirect_message
          /\ last'.calls = 0
          /\ ai_provider' = ai_provider]_vars

C3_Witness ==
    /\ last.op = "think" /\ IsStr(last.arg) /\ ~ last.decision.is_relevant
    /\ last.calls = 0 /\ get_history(ai_provider) # <<>>

\* C4: for every input and every outcome of the backend, think does not raise and
\* returns a string.
C4_ThinkReturnsString ==
    last.op = "think" => (last.exc = NoExc /\ IsStr(last.ret))

\* C5: generate_response of each of the four adapters never raises, whatever the backend
\* does and whether or not the adapter's client was ever set up.
C5_GenerateNeverRaises ==
    last.op = "generate_response" => last.exc = NoExc

C5_Witness ==
    /\ last.op = "generate_response" /\ last.exc = NoExc /\ last.calls = 0
    /\ ai_provider.cls = OPENAI /\ ~ ai_provider.client /\ IsStr(last.ret)

\* a generate_response call whose request failed: a transport or auth error, a non-OK
\* status, an unusable body, or a reply with empty or null text
GenerationFailed(call) ==
    /\ call.op = "generate_response"
    /\ \/ call.reply.kind \in {"raises", "status", "malformed"}
       \/ call.reply.kind = "content" /\ ~ Truthy(call.reply.value)

\* C6: for every adapter and every kind of generation failure the string returned by
\* generate_response contains "I'm sorry" and the text of the underlying error.
C6_FailureReturnsApology ==
    GenerationFailed(last) =>
        /\ IsStr(last.ret)
        /\ Contains(last.ret.v, <<"I'm sorry">>)
        /\ Contains(last.ret.v, last.reply.text)

\* a generate_response call the backend answered with a reply the adapter took
GenerationSucceeded(call) ==
    /\ call.op = "generate_response" /\ call.exc = NoExc /\ call.calls = 1
    /\ call.reply.kind \in {"content", "nofield"}

\* C7: one successful generate_response call leaves the previous history with exactly
\* two entries appended, the user entry and then the assistant entry.
C7_SuccessAppendsOnePair ==
    [][GenerationSucceeded(last') =>
          LET old == get_history(ai_provider)
              new == get_history(ai_provider')
          IN  /\ Len(new) = Len(old) + 2
              /\ SubSeq(new, 1, Len(old)) = old
              /\ new[Len(old) + 1] = <<"U", "s", "e", "r", ":", " ">> \o last'.arg.v
              /\ new[Len(old) + 2] = <<"A", "s", "s", "i", "s", "t", "a", "n", "t", ":", " ">> \o Format(last'.ret)]_vars

C7_Witness ==
    /\ GenerationSucceeded(last) /\ ai_provider.cls = OPENAI
    /\ Len(get_history(ai_provider)) = 4

\* C8: after clear_history() get_history() is empty, and the call changes nothing else:
\* the adapter's class and client, the configuration, the active provider, the Brain
\* and the dataset context stay as they were.
C8_ClearHistoryOnlyEmptiesHistory ==
    [][last'.op = "clear_history" =>
          /\ get_history(ai_provider') = <<>>
          /\ ai_provider'.cls = ai_provider.cls
          /\ ai_provider'.client = ai_provider.client
          /\ UNCHANGED <<ACTIVE_MODEL, API_KEYS, MODEL_CONFIGS, brain, loaded_files,
                         current_file_context>>]_vars

C8_Witness ==
    /\ last.op = "clear_history" /\ get_history(ai_provider) = <<>>
    /\ ai_provider.cls = OLLAMA /\ loaded_files # <<>>

\* the text, whatever its case, contains none of 'load', 'file', 'data'
NoBootstrapKeyword(text) ==
    \A keyword \in {<<"l", "o", "a", "d">>, <<"f", "i", "l", "e">>, <<"d", "a", "t", "a">>} : ~ Contains(Lower(text), keyword)

\* a check_query_relevance call on a text that matches an off-topic pattern
OffTopicChecked ==
    last.op = "check_query_relevance" /\ MatchesOffTopic(Lower(last.arg.v))

\* C9 as stated: every input that matches an off-topic pattern is not relevant and its
\* message is one of redirect_responses, with or without a dataset.
C9_OffTopicGetsRedirectPool ==
    OffTopicChecked =>
        /\ ~ last.decision.is_relevant
        /\ IsStr(last.decision.redirect_message)
        /\ last.decision.redirect_message.v \in redirect_responses

\* C9 as amended: every input that matches an off-topic pattern is not relevant; its
\* message is one of redirect_responses when a dataset is loaded or the text contains a
\* bootstrapping keyword, and one of no_data_responses otherwise.
C9_OffTopicNotRelevant ==
    OffTopicChecked =>
        /\ ~ last.decision.is_relevant
        /\ IsStr(last.decision.redirect_message)
        /\ IF loaded_files = <<>> /\ NoBootstrapKeyword(last.arg.v)
           THEN last.decision.redirect_message.v \in no_data_responses
           ELSE last.decision.redirect_message.v \in redirect_responses

C9_Witness ==
    /\ OffTopicChecked /\ last.arg.v = <<"W", "E", "A", "T", "H", "E", "R", " ", "d", "a", "t", "a">> /\ loaded_files = <<>>
    /\ last.decision.redirect_message.v \in redirect_responses

\* C10: with no dataset loaded and none of 'load', 'file', 'data' in the text, the
\* decision is not relevant with a message of no_data_responses, also when the text
\* matches an off-topic pattern or holds a data-analysis keyword.
C10_NoDataGetsNoDataPool ==
    (last.op = "check_query_relevance" /\ loaded_files = <<>> /\ NoBootstrapKeyword(last.arg.v)) =>
        /\ ~ last.decision.is_relevant
        /\ IsStr(last.decision.redirect_message)
        /\ last.decision.redirect_message.v \in no_data_responses

C10_Witness ==
    /\ last.op = "check_query_relevance" /\ loaded_files = <<>>
    /\ last.arg.v = <<"w", "h", "a", "t", "'", "s", " ", "t", "h", "e", " ", "w", "e", "a", "t", "h", "e", "r", "?">>
    /\ last.decision.redirect_message.v \in no_data_responses

\* the text, whatever its case, contains one of data_keywords
HasDataKeyword(text) == \E keyword \in data_keywords : Contains(Lower(text), keyword)

\* C11: the classifier is a first-match-wins cascade: a text is relevant, with no
\* redirect, exactly when the no-data rule does not fire, no off-topic pattern matches,
\* and the text has a data-analysis keyword or a dataset is loaded; every other text is
\* not relevant, also one with data-analysis keywords that matches an off-topic pattern.
C11_RelevantExactlyWhenNoRuleRejects ==
    last.op = "check_query_relevance" =>
        LET text == last.arg.v
            relevant == /\ ~ (loaded_files = <<>> /\ NoBootstrapKeyword(text))
                        /\ ~ MatchesOffTopic(Lower(text))
                        /\ (HasDataKeyword(text) \/ loaded_files # <<>>)
        IN  /\ last.decision.is_relevant = relevant
            /\ relevant => last.decision.redirect_message = None

C11_Witness ==
    /\ last.op = "check_query_relevance" /\ last.arg.v = <<"d", "a", "t", "a", " ", "c", "o", "d", "e">>
    /\ loaded_files = <<>> /\ ~ last.decision.is_relevant

\* the place of the first fragment f in the text s, 0 when it is not there
IndexOf(s, f) == IF \E i \in 1..Len(s) : s[i] = f
                 THEN CHOOSE i \in 1..Len(s) : s[i] = f /\ \A j \in 1..(i - 1) : s[j] # f
                 ELSE 0

SystemLine == "You are a data analysis assistant. Your role is to help users understand and analyze their data files."

\* C12: for a non-empty user text and any dataset state the composed prompt ends with
\* the labeled user question holding the text as typed, and that section comes after the
\* system line, the dataset block if there is one, and the guideline block, in this order.
C12_PromptEndsWithQuestionVerbatim ==
    (last.op = "enhance_prompt_with_context" /\ last.arg.v # <<>>) =>
        LET prompt == last.ret.v
            files == IndexOf(prompt, "\nCurrently loaded files: ")
            guide == IndexOf(prompt, "\nGuidelines:")
            question == IndexOf(prompt, "\nUser question: ")
        IN  /\ EndsWith(prompt, <<"\nUser question: ">> \o last.arg.v)
            /\ question = Len(prompt) - Len(last.arg.v)
            /\ prompt[1] = SystemLine
            /\ 1 < guide /\ guide < question
            /\ files # 0 => (1 < files /\ files < guide)

C12_Witness ==
    /\ last.op = "enhance_prompt_with_context" /\ last.arg.v = <<"M", "u", "s", "i", "c", " ", "f", "i", "l", "e">>
    /\ loaded_files # <<>>
    /\ EndsWith(last.ret.v, <<"\nUser question: ">> \o <<"M", "u", "s", "i", "c", " ", "f", "i", "l", "e">>)

\* the lines of the dataset block for the loaded files and the active file
DatasetBlock(files, active) ==
    LET df == (CHOOSE f \in {files[i] : i \in 1..Len(files)} : f.name = active).df
    IN  <<"\nCurrently loaded files: ">> \o Join(<<", ">>, [i \in 1..Len(files) |-> files[i].name])
        \o <<"\n", "Active file: ">> \o active
        \o <<"\n", "Columns: ">> \o Join(<<", ">>, df.columns)
        \o <<"\n", "Shape: ">> \o IntStr(df.shape[1]) \o <<" rows × ">> \o IntStr(df.shape[2])
        \o <<" columns", "\n">>

\* the prompt around a dataset block
PromptAround(block, text) ==
    <<SystemLine, "\n">> \o block
    \o <<"\nGuidelines:", "\n",
         "- Focus only on data analysis, statistics, and insights from the loaded files", "\n",
         "- Provide specific, actionable insights about the data", "\n",
         "- If asked about non-data topics, politely redirect to data analysis", "\n",
         "- Use the actual column names and data when providing examples", "\n",
         "\nUser question: ">> \o text

\* C13: the composed prompt holds the dataset block (loaded filenames, active filename,
\* its columns and its rows x columns shape) exactly when a dataset is loaded; with none
\* loaded the block is left out and the rest of the prompt is the same.
C13_DatasetBlockIffLoaded ==
    last.op = "enhance_prompt_with_context" =>
        IF loaded_files # <<>>
        THEN /\ IsStr(current_file_context)
             /\ last.ret.v = PromptAround(DatasetBlock(loaded_files, current_file_context.v),
                                          last.arg.v)
        ELSE last.ret.v = PromptAround(<<>>, last.arg.v)

C13_Witness ==
    /\ last.op = "enhance_prompt_with_context" /\ Len(loaded_files) = 2
    /\ current_file_context = Str(<<"s", ".", "c", "s", "v">>)
    /\ Contains(last.ret.v, <<"Shape: ", "3", " rows × ", "2", " columns">>)

\* initialize() of an adapter of class cls goes through: its package is there, and its
\* key is set or, for Ollama, the server answers
InitializeGoesThrough(cls, env) ==
    /\ env.installed
    /\ IF cls = OLLAMA THEN env.reachable ELSE Truthy(MODEL_CONFIGS[cls].api_key)

\* C14: create_provider returns an adapter only after that adapter's initialize() has
\* completed; it raises the unsupported-provider error for a provider that is not one of
\* the four members, and it lets a failure of initialize() through instead of returning
\* an adapter that is not initialized.
C14_FactoryReturnsInitializedOnly ==
    last.op = "create_provider" =>
        LET cls == last.arg.v
        IN  IF cls \notin AIProvider
            THEN /\ last.exc = Exc("ValueError", <<"Unsupported AI provider: ", cls>>)
                 /\ last.ret = None
            ELSE IF InitializeGoesThrough(cls, last.arg.env)
            THEN /\ last.exc = NoExc
                 /\ last.ret.k = "adapter" /\ last.ret.v = ai_provider
                 /\ ai_provider.cls = cls
                 /\ cls # OLLAMA => ai_provider.client
            ELSE /\ last.exc.type \in {"ImportError", "ValueError", "ConnectionError"}
                 /\ last.ret = None

C14_Witness ==
    /\ last.op = "create_provider" /\ last.arg.v = GEMINI
    /\ last.exc.type = "ValueError" /\ last.ret = None
    /\ MODEL_CONFIGS[GEMINI].api_key = None

\* the key is not there, or it is still the placeholder the module ships
KeyAbsentOrPlaceholder(cls) ==
    \/ ~ Truthy(MODEL_CONFIGS[cls].api_key)
    \/ MODEL_CONFIGS[cls].api_key = InitialApiKeys[cls]

\* C15: for Gemini, OpenAI and Anthropic initialize() fails, with the configuration
\* error once the package is there, whenever the configured API key is absent or is
\* still the shipped placeholder; such an adapter never gets its client.
C15_PlaceholderKeyFailsInitialize ==
    (/\ last.op = "initialize"
     /\ ai_provider.cls \in {GEMINI, OPENAI, ANTHROPIC}
     /\ KeyAbsentOrPlaceholder(ai_provider.cls)) =>
        /\ last.exc # NoExc
        /\ last.arg.v.installed => last.exc.type = "ValueError"
        /\ ~ ai_provider.client

\* C16: switch_model never raises: for every argument (a member of AIProvider, one whose
\* adapter fails to initialize, a value that is no member) it returns a string.
C16_SwitchModelNeverRaises ==
    last.op = "switch_model" => (last.exc = NoExc /\ IsStr(last.ret))

\* the entry starts with the prefix
StartsWith(entry, prefix) ==
    Len(entry) >= Len(prefix) /\ SubSeq(entry, 1, Len(prefix)) = prefix

C18_HistoryHoldsTypedText ==
    [][(/\ last'.op = "think"
        /\ Len(get_history(ai_provider')) = Len(get_history(ai_provider)) + 2) =>
          LET new == get_history(ai_provider')
          IN  /\ new[Len(new) - 1] = <<"U", "s", "e", "r", ":", " ">> \o last'.arg.v
              /\ new[Len(new)] = <<"A", "s", "s", "i", "s", "t", "a", "n", "t", ":", " ">> \o Format(last'.ret)]_vars

\* the last k entries of the history, k at most its length
LastK(history, k) == [i \in 1..k |-> history[Len(history) - k + i]]

\* C19: get_context(limit) returns the newline-join of the last `limit` entries in their
\* stored order, of the whole history when it has fewer than `limit` entries, and the
\* empty string when the history is empty; it does not modify the history.
C19_ContextIsLastLimitEntries ==
    [][last'.op = "get_context" =>
          LET history == get_history(ai_provider)
              limit == last'.arg.v
              k == IF Len(history) < limit THEN Len(history) ELSE limit
          IN  /\ last'.ret = Str(IF history = <<>> THEN <<>>
                                 ELSE Join(<<"\n">>, LastK(history, k)))
              /\ ai_provider' = ai_provider]_vars

\* Config.CONVERSATION_HISTORY_LIMIT
CONVERSATION_HISTORY_LIMIT == 20

\* how many of the stored entries a request replays: the messages between the system
\* message and the current one, or the entries of the context the text opens with
ReplayedEntries(sent, history) ==
    IF sent.form = "messages" THEN Len(sent.body) - 2
    ELSE LET Replays(k) ==
                 StartsWith(sent.body, <<"Previous conversation:\n">>
                                           \o Join(<<"\n">>, LastK(history, k))
                                           \o <<"\n\nCurrent user input: ">>)
         IN  IF \E k \in 1..Len(history) : Replays(k)
             THEN CHOOSE k \in 1..Len(history) :
                      Replays(k) /\ \A j \in (k + 1)..Len(history) : ~ Replays(j)
             ELSE 0

\* C20: the replay window is bounded for every adapter: what a generate_response call
\* sends to the backend, as context text or as messages, covers at most the last 20
\* stored entries, however long the stored history is.
C20_ReplayWindowBounded ==
    [][(last'.op = "generate_response" /\ last'.calls = 1) =>
          ReplayedEntries(last'.sent, get_history(ai_provider))
              <= CONVERSATION_HISTORY_LIMIT]_vars

\* the entry without its prefix, when it starts with it and has it nowhere else
Stripped(entry, prefix, content) ==
    LET rest == SubSeq(entry, Len(prefix) + 1, Len(entry))
    IN  (StartsWith(entry, prefix) /\ ~ Contains(rest, prefix)) => content = rest

\* C21: when the OpenAI adapter rebuilds its messages from a stored history of any
\* length it takes the entries two at a time as (user, assistant) pairs in order, leaves
\* out the unpaired last entry of an odd-length history without raising, and the list
\* is one system message, the paired messages, then the prompt as the last user message.
C21_MessagesArePairsThenPrompt ==
    [][(last'.op = "generate_response" /\ last'.sent.form = "messages") =>
          LET history == get_history(ai_provider)
              messages == last'.sent.body
              pairs == Len(history) \div 2
          IN  /\ last'.exc = NoExc
              /\ Len(messages) = 2 * pairs + 2
              /\ messages[1] = [role |-> "system",
                                content |-> <<"You are a helpful AI assistant.">>]
              /\ messages[Len(messages)] = [role |-> "user", content |-> last'.arg.v]
              /\ \A j \in 1..pairs :
                     /\ messages[2 * j].role = "user"
                     /\ Stripped(history[2 * j - 1], <<"U", "s", "e", "r", ":", " ">>, messages[2 * j].content)
                     /\ messages[2 * j + 1].role = "assistant"
                     /\ Stripped(history[2 * j], <<"A", "s", "s", "i", "s", "t", "a", "n", "t", ":", " ">>,
                                 messages[2 * j + 1].content)]_vars

C21_Witness ==
    /\ last.op = "generate_response" /\ last.sent.form = "messages"
    /\ Len(get_history(ai_provider)) = 3 /\ Len(last.sent.body) = 4
    /\ last.reply.kind = "raises"

\* the adapter object without its history
Object(adapter) == [adapter EXCEPT !.conversation_history = <<>>]

\* C22: an adapter whose initialize() failed is never the Brain's adapter: while a Brain
\* exists its adapter is one that create_provider returned (for the keyed providers it
\* has its client), it is replaced only by a Brain() or switch_model that succeeded, and
\* a failed Brain() or a failed switch_model leaves the adapter as it was.
C22_ActiveAdapterIsInitialized ==
    [][/\ brain'.exists =>
             /\ ai_provider'.cls \in AIProvider
             /\ ai_provider'.cls # OLLAMA => ai_provider'.client
             /\ Object(ai_provider') # Object(ai_provider) =>
                    \/ SwitchSucceeded(last')
                    \/ last'.op = "Brain" /\ last'.exc = NoExc
       /\ (last'.op \in {"Brain", "switch_model"} /\ ~ SwitchSucceeded(last')
              /\ ~ (last'.op = "Brain" /\ last'.exc = NoExc)) =>
             ai_provider' = ai_provider]_vars

C22_Witness ==
    /\ brain.exists /\ last.op = "think" /\ last.calls = 1
    /\ ACTIVE_MODEL = OLLAMA /\ ai_provider.cls = OPENAI /\ ai_provider.client

\* the string think returns from its handler
GenericApology ==
    <<"I'm sorry", ", I encountered an error while processing your request. Please try again.">>

\* C23: when an exception is raised inside think outside the adapter (here by the
\* classifier, given a value that is not a str), think returns one fixed apologetic
\* string, the same for every exception, with none of the exception's text and no
\* provider name in it; it raises nothing and the adapter is not called.
C23_ThinkReturnsGenericApology ==
    (last.op = "think" /\ ~ IsStr(last.arg)) =>
        /\ last.exc = NoExc
        /\ last.ret = Str(GenericApology)
        /\ last.calls = 0

C23_Witness ==
    /\ last.op = "think" /\ last.arg.k = "int" /\ last.ret = Str(GenericApology)
    /\ ai_provider.cls = ANTHROPIC /\ loaded_files # <<>>

\* C24: there is no retry: a think call makes at most one request to the backend, and
\* when the generation fails (the backend raises, answers a non-OK status or an unusable
\* body) think answers with the apologetic string after that one request.
C24_OneAttemptThenApology ==
    last.op = "think" =>
        /\ last.calls <= 1
        /\ last.reply.kind \in {"raises", "status", "malformed"} =>
               /\ last.calls = 1
               /\ IsStr(last.ret) /\ Contains(last.ret.v, <<"I'm sorry">>)

\* C26: after any sequence of Config.switch_model, Config.update_api_key and factory
\* calls there is exactly one ModelConfig for each of the four providers and
\* ACTIVE_MODEL names one of them, so get_active_config resolves; Config.switch_model
\* with an unknown identifier raises and leaves ACTIVE_MODEL as it was.
C26_OneConfigPerProvider ==
    [][/\ DOMAIN MODEL_CONFIGS' = AIProvider
       /\ \A p \in AIProvider : MODEL_CONFIGS'[p].provider = p
       /\ get_active_config(ACTIVE_MODEL') \in DOMAIN MODEL_CONFIGS'
       /\ (last'.op = "Config.switch_model"
              /\ ~ (last'.arg.k = "enum" /\ last'.arg.v \in AIProvider)) =>
             /\ last'.exc.type = "ValueError"
             /\ ACTIVE_MODEL' = ACTIVE_MODEL]_vars

C26_Witness ==
    /\ last.op = "Config.switch_model" /\ last.arg.k = "str"
    /\ last.exc.type = "ValueError" /\ ACTIVE_MODEL = ANTHROPIC
    /\ "mistral" \in DOMAIN API_KEYS /\ DOMAIN MODEL_CONFIGS = AIProvider

\* C27: a generate_response call that ends in a failure outcome (the backend raised,
\* answered a non-OK status or an unusable body, or returned an empty response) leaves
\* the adapter's history exactly as it was.
C27_FailureLeavesHistory ==
    [][GenerationFailed(last') => get_history(ai_provider') = get_history(ai_provider)]_vars

\* C28: check_query_relevance returns a well-formed decision: a message, a non-empty
\* string of one of the two pools, exactly when is_relevant is false, and no message
\* exactly when it is true; so the test in think (not relevant and a message) lets no
\* text that is not relevant through to the adapter.
C28_DecisionWellFormed ==
    last.op = "check_query_relevance" =>
        LET decision == last.decision
        IN  /\ decision.is_relevant => decision.redirect_message = None
            /\ ~ decision.is_relevant =>
                   /\ IsStr(decision.redirect_message)
                   /\ decision.redirect_message.v # <<>>
                   /\ decision.redirect_message.v \in redirect_responses \cup no_data_responses
            /\ ReachesAdapter(last.arg, decision) = decision.is_relevant

C28_Witness ==
    /\ last.op = "check_query_relevance" /\ last.arg.v = <<"l", "o", "a", "d">>
    /\ ~ last.decision.is_relevant
    /\ last.decision.redirect_message.v \in redirect_responses

\* the last rule of the classifier answered: not relevant, a message of
\* redirect_responses, and no off-topic pattern in the text
LastRuleFired ==
    /\ last.op = "check_query_relevance"
    /\ ~ last.decision.is_relevant
    /\ last.decision.redirect_message.v \in redirect_responses
    /\ ~ MatchesOffTopic(Lower(last.arg.v))

\* C29: the last rule of the classifier fires only when no dataset is loaded and the
\* text contains 'load' but neither 'file' nor 'data' nor any other data keyword, and
\* no off-topic pattern; with a dataset loaded every text that matches no off-topic
\* pattern is relevant.
C29_LastRuleOnlyForBareLoad ==
    /\ LastRuleFired =>
           /\ loaded_files = <<>>
           /\ Contains(Lower(last.arg.v), <<"l", "o", "a", "d">>)
           /\ ~ Contains(Lower(last.arg.v), <<"f", "i", "l", "e">>)
           /\ ~ Contains(Lower(last.arg.v), <<"d", "a", "t", "a">>)
           /\ ~ HasDataKeyword(last.arg.v)
    /\ (last.op = "check_query_relevance" /\ loaded_files # <<>>
           /\ ~ MatchesOffTopic(Lower(last.arg.v))) => last.decision.is_relevant

C29_Witness ==
    /\ LastRuleFired /\ last.arg.v = <<"l", "o", "a", "d">> /\ loaded_files = <<>>
    /\ current_file_context = None

\* a load_file call that did not load: its message is not the summary of a file
LoadFailed(call) == call.op = "load_file" /\ Head(call.ret.v) # "File Loaded: "

\* C30: after any sequence of load_file calls the current context is unset or names a
\* file of loaded_files, so a loaded dataset has file info for the prompt; a load_file
\* that fails (no such file, unsupported format, read error) leaves loaded_files and the
\* context as they were, and classification and prompt composition never change them.
C30_ContextNamesLoadedFile ==
    [][/\ \/ current_file_context' = None
          \/ IsStr(current_file_context') /\ HasFileInfo(loaded_files', current_file_context'.v)
       /\ loaded_files' # <<>> => current_file_context' # None
       /\ (\/ LoadFailed(last')
           \/ last'.op \in {"check_query_relevance", "enhance_prompt_with_context", "think"})
              => UNCHANGED <<loaded_files, current_file_context>>]_vars

C30_Witness ==
    /\ LoadFailed(last) /\ last.arg.v = <<"R", ".", "X", "L", "S">>
    /\ Len(loaded_files) = 2 /\ current_file_context = Str(<<"t", ".", "c", "s", "v">>)

\* C25: calls into the one Brain are serialized: with the request handlers of the web
\* server as its callers, at most one think or switch_model call is in flight at any
\* time.
C25_OneCallInFlight ==
    Cardinality({h \in Handlers : requests[h].pc # "idle"}) <= 1

====
